---------------------------- MODULE Spec2Model ----------------------------
(***************************************************************************)
(* GhidraInsight resilience layer: the ErrorRecoveryManager of             *)
(* python-mcp/ghidrainsight/core/error_recovery.py as a state machine.     *)
(*                                                                         *)
(* One manager object is shared by a sequence of calls.  A call is either  *)
(* execute_with_recovery(operation, ...) or a direct invocation of one of  *)
(* the five recovery-strategy coroutines on an AnalysisError.  Every await *)
(* of the source (the operation, asyncio.sleep) is a step of its own.      *)
(*                                                                         *)
(* Strings whose characters the code inspects (exception type names) are   *)
(* sequences of one-character strings, so that lower() and the substring   *)
(* test `in` are computed, not assumed.  Delays are in milliseconds.       *)
(***************************************************************************)
EXTENDS Integers, Sequences, FiniteSets, TLC

VARIABLES
    error_history,        \* ErrorRecoveryManager.error_history
    recovery_strategies,  \* ErrorRecoveryManager.recovery_strategies
    now,                  \* logical time.time(): calls started so far
    pc,                   \* position of the call in flight
    entry,                \* the coroutine the caller invoked
    operation,            \* behaviour of the callable passed in
    kwargs,               \* the "features" keyword argument
    invocations,          \* log of awaited operation(*args, **kwargs)
    exc,                  \* `e` of execute_with_recovery's except clause
    error,                \* the AnalysisError of the call
    strategy,             \* the strategy coroutine running
    attempt,              \* loop variable of the retry strategies
    range_stop,           \* stop of range(retry_count, max_retries)
    sleeps,               \* log of awaited asyncio.sleep(delay)
    strategy_result,      \* what the strategy coroutine returned / raised
    recovery_result,      \* what _attempt_recovery returned
    outcome,              \* what the caller of the call observed
    d_pc,                 \* position of the worker task in flight
    d_task,               \* the worker task submitted
    d_input,              \* its arguments and the state of its host
    d_index,              \* position of `for feature in features`
    d_results,            \* the `results` dict of analyze_binary_parallel
    d_engine,             \* log of analysis_engine._run_feature_analysis calls
    d_outcome,            \* what the task returned or raised
    region_config,        \* MultiRegionManager.region_config
    regions,              \* MultiRegionManager.regions, in insertion order
    session,              \* MultiRegionManager._session
    loop_tasks,           \* the tasks of the event loop that run the manager's coroutines
    http,                 \* log of the requests sent through the session
    returned,             \* what the last call of a method without await returned
    parked,               \* the locals of a second call on the manager, while it is suspended
    running               \* which of the two calls owns the locals above

\* the recovery manager and the call in flight on it
recovery_vars ==
    << error_history, recovery_strategies, now, pc, entry, operation,
       kwargs, invocations, exc, error, strategy, attempt, range_stop,
       sleeps, strategy_result, recovery_result, outcome >>

\* the worker task of distributed_tasks.py
dispatch_vars ==
    << d_pc, d_task, d_input, d_index, d_results, d_engine, d_outcome >>

\* the region manager of multi_region.py and the event loop it runs on
region_vars == << region_config, regions, session, loop_tasks, http, returned >>

\* a second caller of the recovery manager on the same event loop
caller_vars == << parked, running >>

\* what a step of the recovery manager leaves alone
beside_recovery == << dispatch_vars, region_vars, caller_vars >>

\* what a step of a worker task leaves alone
beside_dispatch == << recovery_vars, region_vars, caller_vars >>

\* what a step of the region manager leaves alone
beside_region == << recovery_vars, dispatch_vars, caller_vars >>

vars == << recovery_vars, dispatch_vars, region_vars, caller_vars >>

---------------------------------------------------------------------------
(* Bounds of the model *)

\* calls made on one manager in the general specification
MaxCalls == 2
\* largest max_retries of a directly constructed AnalysisError
MaxRetriesBound == 3
\* largest max_retries explored for the backoff schedule
MaxBackoffRetries == 6
\* longest feature list passed as keyword argument
MaxFeatures == 4
\* calls made on one manager in the history specification
MaxHistoryCalls == 1002

\* longest feature list handed to a worker task
MaxDispatchFeatures == 3

\* coroutines of one region manager awaited at the same time
MaxConcurrent == 2

---------------------------------------------------------------------------
(* Character strings *)

UpperCase == << "A","B","C","D","E","F","G","H","I","J","K","L","M",
                "N","O","P","Q","R","S","T","U","V","W","X","Y","Z" >>
LowerCase == << "a","b","c","d","e","f","g","h","i","j","k","l","m",
                "n","o","p","q","r","s","t","u","v","w","x","y","z" >>

\* str.lower() on one character
LowerChar(c) ==
    IF \E i \in 1..Len(UpperCase) : UpperCase[i] = c
    THEN LowerCase[CHOOSE i \in 1..Len(UpperCase) : UpperCase[i] = c]
    ELSE c

\* str.lower()
Lower(s) == [i \in 1..Len(s) |-> LowerChar(s[i])]

\* `sub in s` on strings
Contains(s, sub) ==
    \E k \in 0..(Len(s) - Len(sub)) :
        \A i \in 1..Len(sub) : s[k + i] = sub[i]

s_timeout    == << "t","i","m","e","o","u","t" >>
s_memory     == << "m","e","m","o","r","y" >>
s_network    == << "n","e","t","w","o","r","k" >>
s_connection == << "c","o","n","n","e","c","t","i","o","n" >>
s_database   == << "d","a","t","a","b","a","s","e" >>

\* type(exception).__name__ of the failures the operation may raise
TimeoutError == << "T","i","m","e","o","u","t","E","r","r","o","r" >>
MemoryError == << "M","e","m","o","r","y","E","r","r","o","r" >>
NetworkError == << "N","e","t","w","o","r","k","E","r","r","o","r" >>
ConnectionError == << "C","o","n","n","e","c","t","i","o","n","E","r","r","o","r" >>
DatabaseError == << "D","a","t","a","b","a","s","e","E","r","r","o","r" >>
ValueError == << "V","a","l","u","e","E","r","r","o","r" >>
TypeError == << "T","y","p","e","E","r","r","o","r" >>
ConnectionTimeoutError == << "C","o","n","n","e","c","t","i","o","n","T","i","m","e","o","u","t","E","r","r","o","r" >>
DatabaseConnectionError == << "D","a","t","a","b","a","s","e","C","o","n","n","e","c","t","i","o","n","E","r","r","o","r" >>
MemoryTimeoutError == << "M","e","m","o","r","y","T","i","m","e","o","u","t","E","r","r","o","r" >>
NetworkMemoryError == << "N","e","t","w","o","r","k","M","e","m","o","r","y","E","r","r","o","r" >>
DBTIMEOUT == << "D","B","T","I","M","E","O","U","T" >>

ExceptionTypes ==
    { TimeoutError, MemoryError, NetworkError, ConnectionError, DatabaseError,
      ValueError, ConnectionTimeoutError, DatabaseConnectionError,
      MemoryTimeoutError, NetworkMemoryError, DBTIMEOUT }

---------------------------------------------------------------------------
(* Error model *)

\* ErrorSeverity values
LOW == "low"
MEDIUM == "medium"
HIGH == "high"
CRITICAL == "critical"
ErrorSeverity == { LOW, MEDIUM, HIGH, CRITICAL }

\* RecoveryStrategy values
RETRY == "retry"
FALLBACK == "fallback"
SKIP == "skip"
ESCALATE == "escalate"
RecoveryStrategy == { RETRY, FALLBACK, SKIP, ESCALATE }

\* AnalysisError.max_retries default
DefaultMaxRetries == 3

\* the dataclass AnalysisError (message and context carry no behaviour)
AnalysisError(error_type, severity, recoverable, recovery_strategy, timestamp, retry_count, max_retries) ==
    [ error_type |-> error_type, severity |-> severity,
      recoverable |-> recoverable, recovery_strategy |-> recovery_strategy,
      timestamp |-> timestamp, retry_count |-> retry_count,
      max_retries |-> max_retries ]

NoError == AnalysisError(<< >>, LOW, FALSE, SKIP, 0, 0, 0)

should_retry_inclusive(self) ==
    /\ self.recoverable
    /\ self.recovery_strategy = RETRY
    /\ self.retry_count <= self.max_retries

\* AnalysisError.should_retry
should_retry(self) ==
    /\ self.recoverable
    /\ self.recovery_strategy = RETRY
    /\ self.retry_count < self.max_retries

increment_retry_twice(self) == [self EXCEPT !.retry_count = @ + 2]

\* AnalysisError.increment_retry
increment_retry(self) == [self EXCEPT !.retry_count = @ + 1]

create_error_memory_first(exception, time) ==
    LET error_type == Lower(exception.type) IN
    IF Contains(error_type, s_memory)
    THEN AnalysisError(error_type, CRITICAL, TRUE, FALLBACK, time, 0, DefaultMaxRetries)
    ELSE IF Contains(error_type, s_timeout)
    THEN AnalysisError(error_type, HIGH, TRUE, RETRY, time, 0, DefaultMaxRetries)
    ELSE IF Contains(error_type, s_network) \/ Contains(error_type, s_connection)
    THEN AnalysisError(error_type, MEDIUM, TRUE, RETRY, time, 0, DefaultMaxRetries)
    ELSE IF Contains(error_type, s_database)
    THEN AnalysisError(error_type, HIGH, TRUE, RETRY, time, 0, DefaultMaxRetries)
    ELSE AnalysisError(error_type, MEDIUM, FALSE, ESCALATE, time, 0, DefaultMaxRetries)

\* ErrorRecoveryManager._create_error_from_exception
create_error_from_exception(exception, time) ==
    LET error_type == Lower(exception.type) IN
    IF Contains(error_type, s_timeout)
    THEN AnalysisError(error_type, HIGH, TRUE, RETRY, time, 0, DefaultMaxRetries)
    ELSE IF Contains(error_type, s_memory)
    THEN AnalysisError(error_type, CRITICAL, TRUE, FALLBACK, time, 0, DefaultMaxRetries)
    ELSE IF Contains(error_type, s_network) \/ Contains(error_type, s_connection)
    THEN AnalysisError(error_type, MEDIUM, TRUE, RETRY, time, 0, DefaultMaxRetries)
    ELSE IF Contains(error_type, s_database)
    THEN AnalysisError(error_type, HIGH, TRUE, RETRY, time, 0, DefaultMaxRetries)
    ELSE AnalysisError(error_type, MEDIUM, FALSE, ESCALATE, time, 0, DefaultMaxRetries)

---------------------------------------------------------------------------
(* Values, exceptions and the operation passed by the caller *)

\* Python's None
None == [ kind |-> "None" ]

\* {}: a result that is empty and is not None
Empty == [ kind |-> "empty" ]

\* the value returned by the i-th invocation of an operation
Value(i) == [ kind |-> "value", inv |-> i ]

\* the exception instance raised by the i-th invocation of an operation
Exception(type, i) == [ type |-> type, inv |-> i ]

NoException == Exception(<< >>, 0)

Return(v) == [ kind |-> "return", value |-> v, exc |-> NoException ]
Raise(e) == [ kind |-> "raise", value |-> None, exc |-> e ]
Pending == [ kind |-> "pending", value |-> None, exc |-> NoException ]

\* An operation raises `type` on its first `fails` invocations and returns
\* from then on: Value(i), or None when `result` is "None".
Operations(types, fails) ==
    [ type : types, fails : fails, result : {"value", "None"} ]

\* await operation(*args, **kwargs), the i-th time
Invoke(op, i) ==
    IF i <= op.fails THEN Raise(Exception(op.type, i))
    ELSE IF op.result = "None" THEN Return(None)
    ELSE IF op.result = "empty" THEN Return(Empty)
    ELSE Return(Value(i))

\* the keyword arguments: whether "features" is a key, and its value
FeaturePool == << "entropy", "crypto", "functions", "imports", "symbols", "sections" >>
FeatureList(n) == [ i \in 1..n |-> FeaturePool[i] ]
NoFeatures == [ has |-> FALSE, sized |-> FALSE, features |-> << >> ]
NoneFeatures == [ has |-> TRUE, sized |-> FALSE, features |-> << >> ]
Features(list) == [ has |-> TRUE, sized |-> TRUE, features |-> list ]
Kwargs ==
    { NoFeatures, NoneFeatures } \cup { Features(FeatureList(n)) : n \in 0..MaxFeatures }

---------------------------------------------------------------------------
(* ErrorRecoveryManager *)

retry_with_backoff == "_retry_with_backoff"
reduce_complexity_fallback == "_reduce_complexity_fallback"
retry_with_exponential_backoff == "_retry_with_exponential_backoff"
fallback_to_simpler_analysis == "_fallback_to_simpler_analysis"
retry_with_jitter == "_retry_with_jitter"

RetryStrategies ==
    { retry_with_backoff, retry_with_exponential_backoff, retry_with_jitter }
FallbackStrategies ==
    { reduce_complexity_fallback, fallback_to_simpler_analysis }

\* ErrorRecoveryManager.max_history_size
max_history_size == 1000

\* the recovery_strategies dict built by _setup_default_handlers
setup_default_handlers ==
    [ key \in {"timeout", "memory", "network", "analysis", "database"} |->
        CASE key = "timeout" -> retry_with_backoff
          [] key = "memory" -> reduce_complexity_fallback
          [] key = "network" -> retry_with_exponential_backoff
          [] key = "analysis" -> fallback_to_simpler_analysis
          [] key = "database" -> retry_with_jitter ]

\* dict.get(key): None when the key is absent
dict_get(d, key) == IF key \in DOMAIN d THEN d[key] ELSE "None"

log_error_evicts_newest(history, err) ==
    LET appended == Append(history, err) IN
    IF Len(appended) > max_history_size THEN SubSeq(appended, 1, Len(appended) - 1)
    ELSE appended

\* a history that keeps the last error only
log_error_overwrites(history, err) == << err >>

\* ErrorRecoveryManager._log_error: append, then evict the oldest beyond the bound
log_error(history, err) ==
    LET appended == Append(history, err) IN
    IF Len(appended) > max_history_size THEN Tail(appended) ELSE appended

\* error_history holds the very object the retry loop mutates
mutate_in_history(history, old, new) ==
    [ i \in 1..Len(history) |-> IF history[i] = old THEN new ELSE history[i] ]

\* the locals of the call in flight
Locals ==
    [ pc |-> pc, entry |-> entry, operation |-> operation, kwargs |-> kwargs,
      invocations |-> invocations, exc |-> exc, error |-> error, strategy |-> strategy,
      attempt |-> attempt, range_stop |-> range_stop, sleeps |-> sleeps,
      strategy_result |-> strategy_result, recovery_result |-> recovery_result,
      outcome |-> outcome ]

Init ==
    /\ error_history = << >>
    /\ recovery_strategies = setup_default_handlers
    /\ now = 0
    /\ pc = "idle"
    /\ entry = "None"
    /\ operation = [ type |-> ValueError, fails |-> 0, result |-> "None" ]
    /\ kwargs = NoFeatures
    /\ invocations = << >>
    /\ exc = NoException
    /\ error = NoError
    /\ strategy = "None"
    /\ attempt = 0
    /\ range_stop = 0
    /\ sleeps = << >>
    /\ strategy_result = Pending
    /\ recovery_result = None
    /\ outcome = Pending
    /\ d_pc = "idle"
    /\ d_task = "None"
    /\ d_input = None
    /\ d_index = 1
    /\ d_results = << >>
    /\ d_engine = << >>
    /\ d_outcome = Pending
    /\ region_config = None
    /\ regions = << >>
    /\ session = "None"
    /\ loop_tasks = << >>
    /\ http = << >>
    /\ returned = None
    /\ parked = Locals
    /\ running = 1

\* a caller starts a call once the previous one has finished
StartCall(coroutine, op, kw) ==
    /\ pc = "idle"
    /\ now' = now + 1
    /\ entry' = coroutine
    /\ operation' = op
    /\ kwargs' = kw
    /\ invocations' = << >>
    /\ exc' = NoException
    /\ attempt' = 0
    /\ range_stop' = 0
    /\ sleeps' = << >>
    /\ strategy_result' = Pending
    /\ recovery_result' = None
    /\ UNCHANGED << error_history, recovery_strategies >>
    /\ UNCHANGED beside_recovery

\* execute_with_recovery up to its first await (line 105)
execute_with_recovery(op, kw) ==
    /\ StartCall("execute_with_recovery", op, kw)
    /\ pc' = "ewr_await_operation"
    /\ outcome' = Pending
    /\ error' = NoError
    /\ strategy' = "None"

\* the awaited entry in the log of invocations
Invocation(r) == [ features |-> kwargs, raised |-> r.kind = "raise" ]

ewr_operation_returns_logged ==
    /\ pc = "ewr_await_operation"
    /\ LET r == Invoke(operation, Len(invocations) + 1) IN
        /\ r.kind = "return"
        /\ invocations' = Append(invocations, Invocation(r))
        /\ outcome' = Return(r.value)
        /\ error_history' =
             log_error(error_history, create_error_from_exception(Exception(ValueError, 0), now))
    /\ pc' = "done"
    /\ UNCHANGED << recovery_strategies, now, entry, operation,
                    kwargs, exc, error, strategy, attempt, range_stop, sleeps,
                    strategy_result, recovery_result >>
    /\ UNCHANGED beside_recovery

\* line 105 settles with a result: lines 106-107
ewr_operation_returns ==
    /\ pc = "ewr_await_operation"
    /\ LET r == Invoke(operation, Len(invocations) + 1) IN
        /\ r.kind = "return"
        /\ invocations' = Append(invocations, Invocation(r))
        /\ outcome' = Return(r.value)
    /\ pc' = "done"
    /\ UNCHANGED << error_history, recovery_strategies, now, entry, operation,
                    kwargs, exc, error, strategy, attempt, range_stop, sleeps,
                    strategy_result, recovery_result >>
    /\ UNCHANGED beside_recovery

\* line 105 settles with an exception: lines 109-111
ewr_operation_raises ==
    /\ pc = "ewr_await_operation"
    /\ LET r == Invoke(operation, Len(invocations) + 1) IN
        /\ r.kind = "raise"
        /\ invocations' = Append(invocations, Invocation(r))
        /\ exc' = r.exc
        /\ error' = create_error_from_exception(r.exc, now)
    /\ error_history' = log_error(error_history, error')
    /\ pc' = "ewr_attempt_recovery"
    /\ UNCHANGED << recovery_strategies, now, entry, operation, kwargs,
                    strategy, attempt, range_stop, sleeps, strategy_result,
                    recovery_result, outcome >>
    /\ UNCHANGED beside_recovery

\* strategy_name = error.error_type's kind (the key _setup_default_handlers uses)
strategy_name_by_kind(err) ==
    IF Contains(err.error_type, s_timeout) THEN "timeout"
    ELSE IF Contains(err.error_type, s_memory) THEN "memory"
    ELSE IF Contains(err.error_type, s_network) THEN "network"
    ELSE IF Contains(err.error_type, s_database) THEN "database"
    ELSE "analysis"

\* the key _attempt_recovery looks the strategy up under (line 176)
strategy_name(err) == err.recovery_strategy

\* _attempt_recovery up to the call of the strategy (lines 173-185)
attempt_recovery ==
    /\ pc = "ewr_attempt_recovery"
    /\ LET strategy_func == dict_get(recovery_strategies, strategy_name(error)) IN
        IF ~error.recoverable \/ strategy_func = "None"
        THEN /\ recovery_result' = None
             /\ pc' = "ewr_recovery_result"
             /\ UNCHANGED strategy
        ELSE /\ strategy' = strategy_func
             /\ pc' = "strategy_entry"
             /\ UNCHANGED recovery_result
    /\ UNCHANGED << error_history, recovery_strategies, now, entry, operation,
                    kwargs, invocations, exc, error, attempt, range_stop,
                    sleeps, strategy_result, outcome >>
    /\ UNCHANGED beside_recovery

---------------------------------------------------------------------------
(* Recovery strategies *)

Min(a, b) == IF a <= b THEN a ELSE b

\* _retry_with_backoff: base_delay, max_delay (milliseconds)
backoff_base_delay == 1000
backoff_max_delay == 30000

\* _retry_with_exponential_backoff: base_delay, max_delay (milliseconds);
\* jitter_factor 0.1 as a divisor
exponential_base_delay == 1000
exponential_max_delay == 60000
jitter_divisor == 10

\* _retry_with_jitter: delay = 1.0 + random.uniform(0, 4.0) (milliseconds)
jitter_floor == 1000
jitter_spread == 4000

\* random.uniform(-1, 1), in thousandths: -1 is drawn, 1 is not
UniformSigned == { -1000, 999 }
\* random.random(), in thousandths: 0 is drawn, 1 is not
UniformUnit == { 0, 999 }

backoff_delay_cap_60(k) == Min(backoff_base_delay * (2 ^ k), exponential_max_delay)

\* _retry_with_backoff line 202
backoff_delay(k) == Min(backoff_base_delay * (2 ^ k), backoff_max_delay)

\* _retry_with_exponential_backoff lines 231-233
exponential_backoff_delays(k) ==
    LET delay == Min(exponential_base_delay * (2 ^ k), exponential_max_delay) IN
    { delay + ((delay \div jitter_divisor) * u) \div 1000 : u \in UniformSigned }

\* _retry_with_jitter line 314
jitter_delays == { jitter_floor + (jitter_spread * u) \div 1000 : u \in UniformUnit }

\* the delays a retry strategy may sleep before attempt k
Delays(s, k) ==
    CASE s = retry_with_backoff -> { backoff_delay(k) }
      [] s = retry_with_exponential_backoff -> exponential_backoff_delays(k)
      [] s = retry_with_jitter -> jitter_delays

\* a caller awaits a strategy coroutine directly on an AnalysisError
call_strategy(s, err, op, kw) ==
    /\ StartCall(s, op, kw)
    /\ pc' = "strategy_entry"
    /\ outcome' = Pending
    /\ error' = err
    /\ strategy' = s

\* the three retry strategies up to the loop: `if not error.should_retry()`
\* and `for attempt in range(error.retry_count, error.max_retries)`
retry_entry ==
    /\ pc = "strategy_entry"
    /\ strategy \in RetryStrategies
    /\ IF ~should_retry(error)
       THEN /\ strategy_result' = Return(None)
            /\ pc' = "strategy_done"
            /\ UNCHANGED << attempt, range_stop >>
       ELSE /\ attempt' = error.retry_count
            /\ range_stop' = error.max_retries
            /\ IF attempt' < range_stop'
               THEN /\ pc' = "retry_sleep"
                    /\ UNCHANGED strategy_result
               ELSE /\ strategy_result' = Return(None)
                    /\ pc' = "strategy_done"
    /\ UNCHANGED << error_history, recovery_strategies, now, entry, operation,
                    kwargs, invocations, exc, error, strategy, sleeps,
                    recovery_result, outcome >>
    /\ UNCHANGED beside_recovery

\* loop body up to `await asyncio.sleep(delay)`
retry_sleep ==
    /\ pc = "retry_sleep"
    /\ \E delay \in Delays(strategy, attempt) :
         sleeps' = Append(sleeps, [ attempt |-> attempt, delay |-> delay ])
    /\ pc' = "retry_await_operation"
    /\ UNCHANGED << error_history, recovery_strategies, now, entry, operation,
                    kwargs, invocations, exc, error, strategy, attempt,
                    range_stop, strategy_result, recovery_result, outcome >>
    /\ UNCHANGED beside_recovery

\* `result = await operation(...)` in the loop settles with a result
retry_operation_returns ==
    /\ pc = "retry_await_operation"
    /\ LET r == Invoke(operation, Len(invocations) + 1) IN
        /\ r.kind = "return"
        /\ invocations' = Append(invocations, Invocation(r))
        /\ strategy_result' = Return(r.value)
    /\ pc' = "strategy_done"
    /\ UNCHANGED << error_history, recovery_strategies, now, entry, operation,
                    kwargs, exc, error, strategy, attempt, range_stop, sleeps,
                    recovery_result, outcome >>
    /\ UNCHANGED beside_recovery

\* a loop variable that skips every other attempt
next_attempt_skips(k) == k + 2

\* the attempt after `k` in range(start, stop), or stop when exhausted
next_attempt(k) == k + 1

\* the loop of a retry strategy running one iteration past max_retries
retry_operation_raises_once_more ==
    /\ pc = "retry_await_operation"
    /\ LET r == Invoke(operation, Len(invocations) + 1) IN
        /\ r.kind = "raise"
        /\ invocations' = Append(invocations, Invocation(r))
    /\ error' = increment_retry(error)
    /\ error_history' = mutate_in_history(error_history, error, error')
    /\ attempt' = next_attempt(attempt)
    /\ IF attempt' <= range_stop
       THEN /\ pc' = "retry_sleep"
            /\ UNCHANGED strategy_result
       ELSE /\ strategy_result' = Return(None)
            /\ pc' = "strategy_done"
    /\ UNCHANGED << recovery_strategies, now, entry, operation, kwargs, exc,
                    strategy, range_stop, sleeps, recovery_result, outcome >>
    /\ UNCHANGED beside_recovery

\* a retry loop that logs the failure of a re-invocation
retry_operation_raises_logged ==
    /\ pc = "retry_await_operation"
    /\ LET r == Invoke(operation, Len(invocations) + 1) IN
        /\ r.kind = "raise"
        /\ invocations' = Append(invocations, Invocation(r))
    /\ error' = increment_retry(error)
    /\ error_history' = log_error(mutate_in_history(error_history, error, error'), error')
    /\ attempt' = next_attempt(attempt)
    /\ IF attempt' < range_stop
       THEN /\ pc' = "retry_sleep"
            /\ UNCHANGED strategy_result
       ELSE /\ strategy_result' = Return(None)
            /\ pc' = "strategy_done"
    /\ UNCHANGED << recovery_strategies, now, entry, operation, kwargs, exc,
                    strategy, range_stop, sleeps, recovery_result, outcome >>
    /\ UNCHANGED beside_recovery

\* `result = await operation(...)` in the loop raises: increment_retry, and
\* the next iteration or `return None`
retry_operation_raises ==
    /\ pc = "retry_await_operation"
    /\ LET r == Invoke(operation, Len(invocations) + 1) IN
        /\ r.kind = "raise"
        /\ invocations' = Append(invocations, Invocation(r))
    /\ error' = increment_retry(error)
    /\ error_history' = mutate_in_history(error_history, error, error')
    /\ attempt' = next_attempt(attempt)
    /\ IF attempt' < range_stop
       THEN /\ pc' = "retry_sleep"
            /\ UNCHANGED strategy_result
       ELSE /\ strategy_result' = Return(None)
            /\ pc' = "strategy_done"
    /\ UNCHANGED << recovery_strategies, now, entry, operation, kwargs, exc,
                    strategy, range_stop, sleeps, recovery_result, outcome >>
    /\ UNCHANGED beside_recovery

\* _fallback_to_simpler_analysis: simple_features
simple_features == << "basic_info", "strings" >>

\* original_features[len(original_features)//2:]
reduced_features_second_half(original_features) ==
    SubSeq(original_features, Len(original_features) \div 2 + 1, Len(original_features))

\* original_features[:len(original_features)//2]
reduced_features(original_features) ==
    SubSeq(original_features, 1, Len(original_features) \div 2)

\* _reduce_complexity_fallback up to its await (lines 254-263);
\* len() of a features value that is no list raises TypeError
reduce_complexity_entry ==
    /\ pc = "strategy_entry"
    /\ strategy = reduce_complexity_fallback
    /\ IF ~kwargs.has
       THEN /\ strategy_result' = Return(None)
            /\ pc' = "strategy_done"
            /\ UNCHANGED kwargs
       ELSE IF ~kwargs.sized
       THEN /\ strategy_result' = Raise(Exception(TypeError, 0))
            /\ pc' = "strategy_done"
            /\ UNCHANGED kwargs
       ELSE IF Len(kwargs.features) > 1
       THEN /\ kwargs' = Features(reduced_features(kwargs.features))
            /\ pc' = "fallback_await_operation"
            /\ UNCHANGED strategy_result
       ELSE /\ strategy_result' = Return(None)
            /\ pc' = "strategy_done"
            /\ UNCHANGED kwargs
    /\ UNCHANGED << error_history, recovery_strategies, now, entry, operation,
                    invocations, exc, error, strategy, attempt, range_stop,
                    sleeps, recovery_result, outcome >>
    /\ UNCHANGED beside_recovery

\* _fallback_to_simpler_analysis without the test of line 281
simpler_analysis_entry_unconditional ==
    /\ pc = "strategy_entry"
    /\ strategy = fallback_to_simpler_analysis
    /\ kwargs' = Features(simple_features)
    /\ pc' = "fallback_await_operation"
    /\ UNCHANGED << error_history, recovery_strategies, now, entry, operation,
                    invocations, exc, error, strategy, attempt, range_stop,
                    sleeps, strategy_result, recovery_result, outcome >>
    /\ UNCHANGED beside_recovery

\* _fallback_to_simpler_analysis up to its await (lines 281-290)
simpler_analysis_entry ==
    /\ pc = "strategy_entry"
    /\ strategy = fallback_to_simpler_analysis
    /\ IF kwargs.has
       THEN /\ kwargs' = Features(simple_features)
            /\ pc' = "fallback_await_operation"
            /\ UNCHANGED strategy_result
       ELSE /\ strategy_result' = Return(None)
            /\ pc' = "strategy_done"
            /\ UNCHANGED kwargs
    /\ UNCHANGED << error_history, recovery_strategies, now, entry, operation,
                    invocations, exc, error, strategy, attempt, range_stop,
                    sleeps, recovery_result, outcome >>
    /\ UNCHANGED beside_recovery

\* the dict a fallback wraps a result in
Wrapped(s, features, result) ==
    [ kind |-> "dict", fallback_applied |-> TRUE,
      reason |-> IF s = reduce_complexity_fallback THEN "memory_error" ELSE "analysis_error",
      features_key |-> IF s = reduce_complexity_fallback THEN "reduced_features" ELSE "simple_features",
      features |-> features, result |-> result ]

\* the single re-invocation of a fallback settles (lines 263-273, 290-300)
fallback_operation_settles ==
    /\ pc = "fallback_await_operation"
    /\ LET r == Invoke(operation, Len(invocations) + 1) IN
        /\ invocations' = Append(invocations, Invocation(r))
        /\ strategy_result' =
             IF r.kind = "return"
             THEN Return(Wrapped(strategy, kwargs.features, r.value))
             ELSE Return(None)
    /\ pc' = "strategy_done"
    /\ UNCHANGED << error_history, recovery_strategies, now, entry, operation,
                    kwargs, exc, error, strategy, attempt, range_stop, sleeps,
                    recovery_result, outcome >>
    /\ UNCHANGED beside_recovery

\* The strategy coroutine completes.  Awaited by _attempt_recovery (lines
\* 185-188) its value, or None when it raised, becomes the recovery result;
\* awaited directly, its value or exception goes to the caller.
strategy_returns ==
    /\ pc = "strategy_done"
    /\ IF entry = "execute_with_recovery"
       THEN /\ recovery_result' =
                 IF strategy_result.kind = "raise" THEN None
                 ELSE strategy_result.value
            /\ pc' = "ewr_recovery_result"
            /\ UNCHANGED outcome
       ELSE /\ outcome' = strategy_result
            /\ pc' = "done"
            /\ UNCHANGED recovery_result
    /\ UNCHANGED << error_history, recovery_strategies, now, entry, operation,
                    kwargs, invocations, exc, error, strategy, attempt,
                    range_stop, sleeps, strategy_result >>
    /\ UNCHANGED beside_recovery

raise_wrapped(e) == Exception(e.type, e.inv + 1)

\* `raise e` (line 122)
reraise(e) == e

\* execute_with_recovery returning whatever _attempt_recovery gave, None too
ewr_recovery_result_returns_none ==
    /\ pc = "ewr_recovery_result"
    /\ outcome' = Return(recovery_result)
    /\ pc' = "done"
    /\ UNCHANGED << error_history, recovery_strategies, now, entry, operation,
                    kwargs, invocations, exc, error, strategy, attempt,
                    range_stop, sleeps, strategy_result, recovery_result >>
    /\ UNCHANGED beside_recovery

\* execute_with_recovery after _attempt_recovery (lines 116-122)
ewr_recovery_result ==
    /\ pc = "ewr_recovery_result"
    /\ outcome' =
         IF recovery_result # None THEN Return(recovery_result)
         ELSE Raise(reraise(exc))
    /\ pc' = "done"
    /\ UNCHANGED << error_history, recovery_strategies, now, entry, operation,
                    kwargs, invocations, exc, error, strategy, attempt,
                    range_stop, sleeps, strategy_result, recovery_result >>
    /\ UNCHANGED beside_recovery

\* a caller evaluates error.should_retry() on an AnalysisError
call_should_retry(err) ==
    /\ StartCall("should_retry", [ type |-> ValueError, fails |-> 0, result |-> "None" ], NoFeatures)
    /\ error' = err
    /\ strategy' = "None"
    /\ outcome' = Return([ kind |-> "bool", value |-> should_retry(err) ])
    /\ pc' = "done"

\* the caller has taken the outcome of the call; the manager is idle again
call_completes ==
    /\ pc = "done"
    /\ pc' = "idle"
    /\ entry' = "None"
    /\ operation' = [ type |-> ValueError, fails |-> 0, result |-> "None" ]
    /\ kwargs' = NoFeatures
    /\ invocations' = << >>
    /\ exc' = NoException
    /\ error' = NoError
    /\ strategy' = "None"
    /\ attempt' = 0
    /\ range_stop' = 0
    /\ sleeps' = << >>
    /\ strategy_result' = Pending
    /\ recovery_result' = None
    /\ outcome' = Pending
    /\ UNCHANGED << error_history, recovery_strategies, now >>
    /\ UNCHANGED beside_recovery

\* the call in flight is suspended in an await, or is not running, and the
\* event loop runs the other caller: the two sets of locals change places
switch ==
    /\ pc \in { "idle", "ewr_await_operation", "retry_sleep", "retry_await_operation",
                "fallback_await_operation", "done" }
    /\ parked' = Locals
    /\ running' = 3 - running
    /\ pc' = parked.pc
    /\ entry' = parked.entry
    /\ operation' = parked.operation
    /\ kwargs' = parked.kwargs
    /\ invocations' = parked.invocations
    /\ exc' = parked.exc
    /\ error' = parked.error
    /\ strategy' = parked.strategy
    /\ attempt' = parked.attempt
    /\ range_stop' = parked.range_stop
    /\ sleeps' = parked.sleeps
    /\ strategy_result' = parked.strategy_result
    /\ recovery_result' = parked.recovery_result
    /\ outcome' = parked.outcome
    /\ UNCHANGED << error_history, recovery_strategies, now >>
    /\ UNCHANGED << dispatch_vars, region_vars >>

---------------------------------------------------------------------------
(* Worker tasks: distributed_tasks.py *)

ImportError == << "I", "m", "p", "o", "r", "t", "E", "r", "r", "o", "r" >>
OSError == << "O", "S", "E", "r", "r", "o", "r" >>

\* a bytes object of the given length, and a list argument
Bytes(n) == [ kind |-> "bytes", len |-> n ]
List(items) == [ kind |-> "list", items |-> items ]

\* a dict as its items in insertion order
dict_keys(d) == { d[i].key : i \in 1..Len(d) }
dict_item(d, key) == d[CHOOSE i \in 1..Len(d) : d[i].key = key].value

\* d[key] = value
dict_setitem(d, key, value) ==
    IF key \in dict_keys(d)
    THEN [ i \in 1..Len(d) |-> IF d[i].key = key THEN [ key |-> key, value |-> value ] ELSE d[i] ]
    ELSE Append(d, [ key |-> key, value |-> value ])

\* what the n-th call of analysis_engine._run_feature_analysis returned
EngineResult(feature, n) == [ kind |-> "analysis", feature |-> feature, run |-> n ]

\* str(e) of the exceptions the tasks catch
engine_failed == "analysis failed"
no_len == "object of type 'NoneType' has no len()"
not_iterable == "'NoneType' object is not iterable"
not_subscriptable == "'NoneType' object is not subscriptable"
index_out_of_range == "list index out of range"

\* {"error": str(e)} stored for a feature that raised
feature_error(text) == [ kind |-> "error", error |-> text ]

\* the envelopes the tasks return
parallel_success(features, results, size) ==
    [ features_analyzed |-> features, results |-> results, success |-> TRUE, binary_size |-> size ]

parallel_failure(text) == [ error |-> text, success |-> FALSE ]

chunk_success(offset, size, features, results) ==
    [ offset |-> offset, chunk_size |-> size, features |-> features, results |-> results, success |-> TRUE ]

chunk_failure(offset, text) == [ offset |-> offset, error |-> text, success |-> FALSE ]

worker_stats == [ hostname |-> "worker", platform |-> "platform", counters |-> "measured" ]

worker_stats_partial ==
    [ hostname |-> "worker", platform |-> "platform", error |-> "psutil not available for detailed stats" ]

\* a task is delivered to the worker once the previous one has finished
StartTask(task, input) ==
    /\ d_pc = "idle"
    /\ d_task' = task
    /\ d_input' = input
    /\ d_index' = 1
    /\ d_results' = << >>
    /\ d_engine' = << >>
    /\ d_outcome' = Pending
    /\ UNCHANGED beside_dispatch

\* the engine is called on a feature and returns or raises
run_feature_analysis(feature, raises) ==
    d_engine' = Append(d_engine, [ feature |-> feature, raises |-> raises ])

\* analyze_binary_parallel up to the loop (lines 56-66)
analyze_binary_parallel(binary_data, features) ==
    /\ StartTask("analyze_binary_parallel", [ binary_data |-> binary_data, features |-> features ])
    /\ d_pc' = "parallel_for"

\* `for feature in features` on something that is no list (line 66 to 84)
parallel_not_iterable ==
    /\ d_pc = "parallel_for"
    /\ d_input.features.kind # "list"
    /\ d_outcome' = Return(parallel_failure(not_iterable))
    /\ d_pc' = "done"
    /\ UNCHANGED << d_task, d_input, d_index, d_results, d_engine >>
    /\ UNCHANGED beside_dispatch

\* one iteration whose engine call returns (lines 66-70)
parallel_engine_returns ==
    /\ d_pc = "parallel_for"
    /\ d_input.features.kind = "list"
    /\ d_index <= Len(d_input.features.items)
    /\ LET feature == d_input.features.items[d_index] IN
         /\ run_feature_analysis(feature, FALSE)
         /\ d_results' = dict_setitem(d_results, feature, EngineResult(feature, Len(d_engine) + 1))
    /\ d_index' = d_index + 1
    /\ UNCHANGED << d_pc, d_task, d_input, d_outcome >>
    /\ UNCHANGED beside_dispatch

\* an engine failure that ends the loop and the task
parallel_engine_raises_aborts ==
    /\ d_pc = "parallel_for"
    /\ d_input.features.kind = "list"
    /\ d_index <= Len(d_input.features.items)
    /\ run_feature_analysis(d_input.features.items[d_index], TRUE)
    /\ d_outcome' = Return(parallel_failure(engine_failed))
    /\ d_pc' = "done"
    /\ UNCHANGED << d_task, d_input, d_index, d_results >>
    /\ UNCHANGED beside_dispatch

\* one iteration whose engine call raises (lines 66-73)
parallel_engine_raises ==
    /\ d_pc = "parallel_for"
    /\ d_input.features.kind = "list"
    /\ d_index <= Len(d_input.features.items)
    /\ LET feature == d_input.features.items[d_index] IN
         /\ run_feature_analysis(feature, TRUE)
         /\ d_results' = dict_setitem(d_results, feature, feature_error(engine_failed))
    /\ d_index' = d_index + 1
    /\ UNCHANGED << d_pc, d_task, d_input, d_outcome >>
    /\ UNCHANGED beside_dispatch

\* the loop is over: the envelope is built (lines 75-89)
parallel_returns ==
    /\ d_pc = "parallel_for"
    /\ d_input.features.kind = "list"
    /\ d_index > Len(d_input.features.items)
    /\ d_outcome' =
         IF d_input.binary_data.kind = "bytes"
         THEN Return(parallel_success(d_input.features.items, d_results, d_input.binary_data.len))
         ELSE Return(parallel_failure(no_len))
    /\ d_pc' = "done"
    /\ UNCHANGED << d_task, d_input, d_index, d_results, d_engine >>
    /\ UNCHANGED beside_dispatch

\* analyze_binary_chunk up to its try (lines 23-31)
analyze_binary_chunk(binary_chunk, offset, features) ==
    /\ StartTask("analyze_binary_chunk", [ binary_chunk |-> binary_chunk, offset |-> offset, features |-> features ])
    /\ d_pc' = "chunk_try"

\* len(binary_chunk) and features[0] can be evaluated (lines 32, 37)
chunk_arguments_ok ==
    /\ d_input.binary_chunk.kind = "bytes"
    /\ d_input.features.kind = "list"
    /\ Len(d_input.features.items) > 0

\* an exception of the task is handed to the caller
task_raises(e) == d_outcome' = Raise(e)

\* an exception of analyze_binary_chunk leaves the task
chunk_reraise(text) == task_raises(Exception(ValueError, 1))

\* an exception of analyze_binary_chunk is returned as an envelope (lines 47-53)
chunk_except(text) == d_outcome' = Return(chunk_failure(d_input.offset, text))

\* the try fails before the engine is reached (lines 32-37, 47-53)
chunk_fails_before_engine ==
    /\ d_pc = "chunk_try"
    /\ ~ chunk_arguments_ok
    /\ chunk_except(IF d_input.binary_chunk.kind # "bytes" THEN no_len
                    ELSE IF d_input.features.kind # "list" THEN not_subscriptable
                    ELSE index_out_of_range)
    /\ d_pc' = "done"
    /\ UNCHANGED << d_task, d_input, d_index, d_results, d_engine >>
    /\ UNCHANGED beside_dispatch

\* the engine analyses every feature of the list and returns
chunk_engine_returns_every_feature ==
    /\ d_pc = "chunk_try"
    /\ chunk_arguments_ok
    /\ LET items == d_input.features.items IN
         /\ d_engine' = d_engine \o [ i \in 1..Len(items) |-> [ feature |-> items[i], raises |-> FALSE ] ]
         /\ d_results' = [ i \in 1..Len(items) |->
                             [ key |-> items[i], value |-> EngineResult(items[i], Len(d_engine) + i) ] ]
    /\ d_outcome' = Return(chunk_success(d_input.offset, d_input.binary_chunk.len, d_input.features.items, d_results'))
    /\ d_pc' = "done"
    /\ UNCHANGED << d_task, d_input, d_index >>
    /\ UNCHANGED beside_dispatch

\* the engine analyses the first feature and returns (lines 37-45)
chunk_engine_returns ==
    /\ d_pc = "chunk_try"
    /\ chunk_arguments_ok
    /\ LET feature == d_input.features.items[1] IN
         /\ run_feature_analysis(feature, FALSE)
         /\ d_results' = dict_setitem(<< >>, feature, EngineResult(feature, Len(d_engine) + 1))
    /\ d_outcome' = Return(chunk_success(d_input.offset, d_input.binary_chunk.len, d_input.features.items, d_results'))
    /\ d_pc' = "done"
    /\ UNCHANGED << d_task, d_input, d_index >>
    /\ UNCHANGED beside_dispatch

\* the engine raises on the first feature (lines 37, 47-53)
chunk_engine_raises ==
    /\ d_pc = "chunk_try"
    /\ chunk_arguments_ok
    /\ run_feature_analysis(d_input.features.items[1], TRUE)
    /\ chunk_except(engine_failed)
    /\ d_pc' = "done"
    /\ UNCHANGED << d_task, d_input, d_index, d_results >>
    /\ UNCHANGED beside_dispatch

\* get_worker_stats is delivered to a worker host (line 102)
get_worker_stats(host) ==
    /\ StartTask("get_worker_stats", host)
    /\ d_pc' = "stats_import"

\* `import psutil`, outside the try (lines 105-106)
stats_import ==
    /\ d_pc = "stats_import"
    /\ IF d_input.psutil = "installed"
       THEN d_pc' = "stats_try" /\ UNCHANGED d_outcome
       ELSE d_pc' = "done" /\ task_raises(Exception(ImportError, 0))
    /\ UNCHANGED << d_task, d_input, d_index, d_results, d_engine >>
    /\ UNCHANGED beside_dispatch

\* the try and its `except ImportError` (lines 108-124)
stats_try ==
    /\ d_pc = "stats_try"
    /\ d_outcome' =
         CASE d_input.counters = "ok" -> Return(worker_stats)
           [] d_input.counters = "ImportError" -> Return(worker_stats_partial)
           [] OTHER -> Raise(Exception(OSError, 0))
    /\ d_pc' = "done"
    /\ UNCHANGED << d_task, d_input, d_index, d_results, d_engine >>
    /\ UNCHANGED beside_dispatch

\* the caller has taken the result: the worker is free again
task_completes ==
    /\ d_pc = "done"
    /\ d_pc' = "idle"
    /\ d_task' = "None"
    /\ d_input' = None
    /\ d_index' = 1
    /\ d_results' = << >>
    /\ d_engine' = << >>
    /\ d_outcome' = Pending
    /\ UNCHANGED beside_dispatch

---------------------------------------------------------------------------
(* Regions: multi_region.py *)

Str(text) == [ kind |-> "str", text |-> text ]
Bool(b) == [ kind |-> "bool", value |-> b ]
Dict(items) == [ kind |-> "dict", items |-> items ]
utcnow == [ kind |-> "datetime" ]

\* config.region as the manager reads it
RegionConfig(enabled, names, current_region, primary_region, replication_enabled, replication_regions) ==
    [ kind |-> "RegionConfig", enabled |-> enabled, regions |-> names,
      current_region |-> current_region, primary_region |-> primary_region,
      replication_enabled |-> replication_enabled, replication_regions |-> replication_regions ]

get_region_url(region) == << "https://ghidrainsight-", region, ".example.com" >>

RegionStatus(region) ==
    [ region |-> region, url |-> get_region_url(region), healthy |-> FALSE,
      latency_ms |-> 0, last_check |-> None, error |-> None ]

\* self.regions after _initialize_regions, in insertion order
initialize_regions(config) ==
    IF ~ config.enabled THEN << >>
    ELSE [ i \in 1..Len(config.regions) |-> RegionStatus(config.regions[i]) ]

\* `region in self.regions` and self.regions[region]
region_keys == { regions[i].region : i \in 1..Len(regions) }
region_index(region) == CHOOSE i \in 1..Len(regions) : regions[i].region = region

\* the manager exists
constructed == region_config.kind = "RegionConfig"

\* MultiRegionManager(config)
MultiRegionManager(config) ==
    /\ ~ constructed
    /\ region_config' = config
    /\ regions' = initialize_regions(config)
    /\ session' = "None"
    /\ UNCHANGED << loop_tasks, http, returned >>
    /\ UNCHANGED beside_region

\* await manager.initialize()
initialize ==
    /\ constructed
    /\ session' = IF region_config.enabled THEN "open" ELSE session
    /\ returned' = None
    /\ UNCHANGED << region_config, regions, loop_tasks, http >>
    /\ UNCHANGED beside_region

\* a coroutine of the manager wrapped in a task of the event loop
Task(coro, region, parent) ==
    [ coro |-> coro, region |-> region, parent |-> parent, pc |-> "ready",
      index |-> 1, results |-> << >>, response |-> None, latency |-> 0,
      outcome |-> Pending ]

\* the calls made by the callers of the manager, as opposed to gather's tasks
TopLevel == { t \in 1..Len(loop_tasks) : loop_tasks[t].parent = 0 }

\* a caller awaits a coroutine of the manager
create_task(coro, region) ==
    /\ constructed
    /\ loop_tasks' = Append(loop_tasks, Task(coro, region, 0))
    /\ returned' = None
    /\ UNCHANGED << region_config, regions, session, http >>
    /\ UNCHANGED beside_region

\* no call is in flight: a caller that awaits one call at a time is running
Quiescent == \A t \in 1..Len(loop_tasks) : loop_tasks[t].pc = "done"

\* the callers have taken the results of their calls: the finished tasks are dropped
tasks_collected ==
    /\ loop_tasks # << >>
    /\ Quiescent
    /\ loop_tasks' = << >>
    /\ http' = << >>
    /\ returned' = None
    /\ UNCHANGED << region_config, regions, session >>
    /\ UNCHANGED beside_region

\* the loop runs its ready tasks in the order they were scheduled
Runnable(t) ==
    /\ loop_tasks[t].pc = "ready"
    /\ \A u \in 1..(t - 1) : loop_tasks[u].pc # "ready"

\* a task suspended on I/O resumes once the ready tasks have run
Resumable(t, at) ==
    /\ loop_tasks[t].pc = at
    /\ \A u \in 1..Len(loop_tasks) : loop_tasks[u].pc # "ready"

\* the task ends with a value
finish(task, value) == [ task EXCEPT !.pc = "done", !.outcome = Return(value) ]

\* what the far side of a request does: an HTTP status, or an exception with its str(e)
Status(code) == [ kind |-> "status", status |-> code, text |-> "" ]
Raised(text) == [ kind |-> "exception", status |-> 0, text |-> text ]
session_closed == Raised("Session is closed")

\* a request of task t leaves through the session
send(log, method, region, t) ==
    Append(log, [ method |-> method, region |-> region, task |-> t, answer |-> None ])

\* the request task t is waiting on is answered
answered(t, response) ==
    [ i \in 1..Len(http) |->
        IF http[i].task = t /\ http[i].answer.kind = "None"
        THEN [ http[i] EXCEPT !.answer = response ]
        ELSE http[i] ]

\* a probe that marks the region healthy whatever the status was
probe_writes_any_status(status, response, latency) ==
    IF response.kind = "status"
    THEN [ status EXCEPT !.healthy = TRUE, !.latency_ms = latency,
                         !.last_check = utcnow, !.error = None ]
    ELSE [ status EXCEPT !.healthy = FALSE, !.latency_ms = latency,
                         !.error = Str(<< response.text >>) ]

\* the probe's writes, a 200 leaving the error of an earlier probe in place
probe_writes_keeps_error(status, response, latency) ==
    IF response.kind = "status"
    THEN IF response.status = 200
         THEN [ status EXCEPT !.healthy = TRUE, !.latency_ms = latency,
                              !.last_check = utcnow ]
         ELSE [ status EXCEPT !.healthy = FALSE,
                              !.error = Str(<< "HTTP ", response.status >>) ]
    ELSE [ status EXCEPT !.healthy = FALSE, !.latency_ms = latency,
                         !.error = Str(<< response.text >>) ]

\* the probe's writes after a response that is not lost
probe_writes(status, response, latency) ==
    IF response.kind = "status"
    THEN IF response.status = 200
         THEN [ status EXCEPT !.healthy = TRUE, !.latency_ms = latency,
                              !.last_check = utcnow, !.error = None ]
         ELSE [ status EXCEPT !.healthy = FALSE,
                              !.error = Str(<< "HTTP ", response.status >>) ]
    ELSE [ status EXCEPT !.healthy = FALSE, !.latency_ms = latency,
                         !.error = Str(<< response.text >>) ]

\* the response reaches check_region_health, which writes the status of
\* every region
probe_settles_every_region(t, response, latency) ==
    LET i == region_index(loop_tasks[t].region)
        status == probe_writes(regions[i], response, latency) IN
    /\ regions' = [ j \in 1..Len(regions) |-> probe_writes(regions[j], response, latency) ]
    /\ loop_tasks' = [ loop_tasks EXCEPT ![t] =
                         finish([ @ EXCEPT !.response = response, !.latency = latency ],
                                Bool(status.healthy)) ]

\* the response reaches check_region_health, which drops it when a probe of
\* the region that was started later has already settled
probe_settles_latest_started(t, response, latency) ==
    LET i == region_index(loop_tasks[t].region)
        stale == \E u \in (t + 1)..Len(loop_tasks) :
                    /\ loop_tasks[u].coro = "check_region_health"
                    /\ loop_tasks[u].region = loop_tasks[t].region
                    /\ loop_tasks[u].pc = "done"
        status == IF stale THEN regions[i]
                  ELSE probe_writes(regions[i], response, latency) IN
    /\ regions' = [ regions EXCEPT ![i] = status ]
    /\ loop_tasks' = [ loop_tasks EXCEPT ![t] =
                         finish([ @ EXCEPT !.response = response, !.latency = latency ],
                                Bool(status.healthy)) ]

\* the response reaches check_region_health (lines 92-112)
probe_settles(t, response, latency) ==
    LET i == region_index(loop_tasks[t].region)
        status == probe_writes(regions[i], response, latency) IN
    /\ regions' = [ regions EXCEPT ![i] = status ]
    /\ loop_tasks' = [ loop_tasks EXCEPT ![t] =
                         finish([ @ EXCEPT !.response = response, !.latency = latency ],
                                Bool(status.healthy)) ]

\* check_region_health without the test of self._session (line 85): the
\* missing session fails the request inside the try
check_region_health_enter_unguarded(t, latency) ==
    /\ t \in 1..Len(loop_tasks)
    /\ loop_tasks[t].coro = "check_region_health"
    /\ Runnable(t)
    /\ IF loop_tasks[t].region \notin region_keys
       THEN /\ loop_tasks' = [ loop_tasks EXCEPT ![t] = finish(@, Bool(FALSE)) ]
            /\ UNCHANGED << regions, http >>
       ELSE IF session # "open"
       THEN /\ probe_settles(t, session_closed, latency)
            /\ UNCHANGED http
       ELSE /\ http' = send(http, "GET", loop_tasks[t].region, t)
            /\ loop_tasks' = [ loop_tasks EXCEPT ![t].pc = "await_get" ]
            /\ UNCHANGED regions
    /\ returned' = None
    /\ UNCHANGED << region_config, session >>
    /\ UNCHANGED beside_region

\* check_region_health up to its request (lines 85-92)
check_region_health_enter(t, latency) ==
    /\ t \in 1..Len(loop_tasks)
    /\ loop_tasks[t].coro = "check_region_health"
    /\ Runnable(t)
    /\ IF session = "None" \/ loop_tasks[t].region \notin region_keys
       THEN /\ loop_tasks' = [ loop_tasks EXCEPT ![t] = finish(@, Bool(FALSE)) ]
            /\ UNCHANGED << regions, http >>
       ELSE IF session = "closed"
       THEN /\ probe_settles(t, session_closed, latency)
            /\ UNCHANGED http
       ELSE /\ http' = send(http, "GET", loop_tasks[t].region, t)
            /\ loop_tasks' = [ loop_tasks EXCEPT ![t].pc = "await_get" ]
            /\ UNCHANGED regions
    /\ returned' = None
    /\ UNCHANGED << region_config, session >>
    /\ UNCHANGED beside_region

\* check_region_health from the response on (lines 92-112)
check_region_health_settles(t, response, latency) ==
    /\ t \in 1..Len(loop_tasks)
    /\ loop_tasks[t].coro = "check_region_health"
    /\ Resumable(t, "await_get")
    /\ probe_settles(t, response, latency)
    /\ http' = answered(t, response)
    /\ returned' = None
    /\ UNCHANGED << region_config, session >>
    /\ UNCHANGED beside_region

\* the tasks gather made for the call t, in the order of its arguments
children(t) == { u \in 1..Len(loop_tasks) : loop_tasks[u].parent = t }

\* asyncio.gather wraps every coroutine in a task and schedules it (line 124)
gather(t) ==
    loop_tasks \o [ i \in 1..Len(regions) |-> Task("check_region_health", regions[i].region, t) ]

\* check_all_regions up to its await (lines 116-124)
check_all_regions_enter(t) ==
    /\ t \in 1..Len(loop_tasks)
    /\ loop_tasks[t].coro = "check_all_regions"
    /\ Runnable(t)
    /\ loop_tasks' =
         IF ~ region_config.enabled
         THEN [ loop_tasks EXCEPT ![t] = finish(@, Dict(<< >>)) ]
         ELSE [ gather(t) EXCEPT ![t].pc = "await_gather" ]
    /\ returned' = None
    /\ UNCHANGED << region_config, regions, session, http >>
    /\ UNCHANGED beside_region

\* the value gather hands back for one task (return_exceptions=True), made a bool (line 127)
gathered(task) ==
    IF task.outcome.kind = "return" /\ task.outcome.value.kind = "bool"
    THEN task.outcome.value
    ELSE Bool(FALSE)

\* a sequence of the elements of a set of task ids, ascending
RECURSIVE Ascending(_)
Ascending(S) ==
    IF S = {} THEN << >>
    ELSE LET least == CHOOSE u \in S : \A v \in S : u <= v IN
         << least >> \o Ascending(S \ { least })

\* the dict comprehension of lines 126-129
RECURSIVE zip_results(_, _)
zip_results(ids, d) ==
    IF ids = << >> THEN d
    ELSE zip_results(Tail(ids),
                     dict_setitem(d, loop_tasks[Head(ids)].region, gathered(loop_tasks[Head(ids)])))

\* check_all_regions that returns as soon as one of its probes has settled
check_all_regions_returns_early(t) ==
    /\ t \in 1..Len(loop_tasks)
    /\ loop_tasks[t].coro = "check_all_regions"
    /\ loop_tasks[t].pc = "await_gather"
    /\ \E u \in children(t) : loop_tasks[u].pc = "done"
    /\ loop_tasks' = [ loop_tasks EXCEPT ![t] =
                         finish(@, Dict(zip_results(Ascending(children(t)), << >>))) ]
    /\ returned' = None
    /\ UNCHANGED << region_config, regions, session, http >>
    /\ UNCHANGED beside_region

\* gather is done: check_all_regions returns (lines 124-129)
check_all_regions_returns(t) ==
    /\ t \in 1..Len(loop_tasks)
    /\ loop_tasks[t].coro = "check_all_regions"
    /\ loop_tasks[t].pc = "await_gather"
    /\ \A u \in children(t) : loop_tasks[u].pc = "done"
    /\ loop_tasks' = [ loop_tasks EXCEPT ![t] =
                         finish(@, Dict(zip_results(Ascending(children(t)), << >>))) ]
    /\ returned' = None
    /\ UNCHANGED << region_config, regions, session, http >>
    /\ UNCHANGED beside_region

\* min that keeps the last of the smallest
RECURSIVE min_by_latency_last(_)
min_by_latency_last(list) ==
    IF Len(list) = 1 THEN list[1]
    ELSE LET rest == min_by_latency_last(Tail(list)) IN
         IF list[1].latency_ms < rest.latency_ms THEN list[1] ELSE rest

\* min(healthy_regions, key=lambda x: x[1]): the first of the smallest
RECURSIVE min_by_latency(_)
min_by_latency(list) ==
    IF Len(list) = 1 THEN list[1]
    ELSE LET rest == min_by_latency(Tail(list)) IN
         IF list[1].latency_ms <= rest.latency_ms THEN list[1] ELSE rest

\* get_best_region without the test of the healthy flag
get_best_region_any_health ==
    IF ~ region_config.enabled THEN region_config.current_region
    ELSE IF regions = << >> THEN region_config.current_region
         ELSE Str(min_by_latency(regions).region)

\* get_best_region (lines 131-153)
get_best_region ==
    IF ~ region_config.enabled THEN region_config.current_region
    ELSE LET healthy_regions == SelectSeq(regions, LAMBDA status : status.healthy) IN
         IF healthy_regions = << >> THEN region_config.current_region
         ELSE Str(min_by_latency(healthy_regions).region)

\* is_current_region_primary reading replication_enabled in place of enabled
is_current_region_primary_replication ==
    IF ~ region_config.replication_enabled THEN TRUE
    ELSE \/ region_config.primary_region = None
         \/ region_config.current_region = region_config.primary_region

\* is_current_region_primary (lines 227-235)
is_current_region_primary ==
    IF ~ region_config.enabled THEN TRUE
    ELSE \/ region_config.primary_region = None
         \/ region_config.current_region = region_config.primary_region

\* a caller calls one of the methods that do not suspend
call(method, value) ==
    /\ constructed
    /\ returned' = [ kind |-> "returned", call |-> method, value |-> value ]
    /\ UNCHANGED << region_config, regions, session, loop_tasks, http >>
    /\ UNCHANGED beside_region

\* the replication targets of a task: its argument, or the configured list
targets(task) ==
    IF task.coro = "replicate_to_region" THEN << task.region >>
    ELSE region_config.replication_regions

\* replicate_to_region gets as far as its POST (lines 166-178)
can_post(region) ==
    /\ region_config.replication_enabled
    /\ region \in region_keys
    /\ session # "None"

\* a failed replication that ends replicate_to_all
replicated_stops_on_failure(task, value) ==
    IF task.coro = "replicate_to_region" THEN finish(task, Bool(value))
    ELSE IF value
    THEN [ task EXCEPT !.results = dict_setitem(@, targets(task)[task.index], Bool(value)),
                       !.index = @ + 1, !.pc = "for" ]
    ELSE finish(task, Dict(dict_setitem(task.results, targets(task)[task.index], Bool(value))))

\* replicate_to_region returned: the caller, or the loop of replicate_to_all, goes on (line 211)
replicated(task, value) ==
    IF task.coro = "replicate_to_region" THEN finish(task, Bool(value))
    ELSE [ task EXCEPT !.results = dict_setitem(@, targets(task)[task.index], Bool(value)),
                       !.index = @ + 1, !.pc = "for" ]

\* the task runs from the head of the loop to its next suspension (lines 210-213, 166-185)
RECURSIVE replicate_for(_)
replicate_for(task) ==
    IF task.pc = "done" THEN task
    ELSE IF task.index > Len(targets(task)) THEN finish(task, Dict(task.results))
    ELSE IF can_post(targets(task)[task.index]) /\ session = "open"
    THEN [ task EXCEPT !.pc = "await_post" ]
    ELSE replicate_for(replicated(task, FALSE))

\* the task moves on and sends the POST it stops at together with the POST
\* to the target after it
replicate_runs_eager(t, task, log) ==
    /\ loop_tasks' = [ loop_tasks EXCEPT ![t] = replicate_for(task) ]
    /\ http' = IF replicate_for(task).pc = "await_post"
               THEN IF replicate_for(task).index < Len(targets(task))
                    THEN send(send(log, "POST", targets(task)[replicate_for(task).index], t),
                              "POST", targets(task)[replicate_for(task).index + 1], t)
                    ELSE send(log, "POST", targets(task)[replicate_for(task).index], t)
               ELSE log

\* the task moves on and sends the POST it stops at, if any
replicate_runs(t, task, log) ==
    /\ loop_tasks' = [ loop_tasks EXCEPT ![t] = replicate_for(task) ]
    /\ http' = IF replicate_for(task).pc = "await_post"
               THEN send(log, "POST", targets(task)[replicate_for(task).index], t)
               ELSE log

\* replicate_to_all or replicate_to_region up to the first suspension
replicate_enter(t) ==
    /\ t \in 1..Len(loop_tasks)
    /\ loop_tasks[t].coro \in { "replicate_to_all", "replicate_to_region" }
    /\ Runnable(t)
    /\ IF loop_tasks[t].coro = "replicate_to_all" /\ ~ region_config.replication_enabled
       THEN /\ loop_tasks' = [ loop_tasks EXCEPT ![t] = finish(@, Dict(<< >>)) ]
            /\ UNCHANGED http
       ELSE replicate_runs(t, [ loop_tasks[t] EXCEPT !.pc = "for" ], http)
    /\ returned' = None
    /\ UNCHANGED << region_config, regions, session >>
    /\ UNCHANGED beside_region

\* the answer to a POST arrives (lines 185-194) and the task runs on
replicate_settles(t, response) ==
    /\ t \in 1..Len(loop_tasks)
    /\ loop_tasks[t].coro \in { "replicate_to_all", "replicate_to_region" }
    /\ Resumable(t, "await_post")
    /\ replicate_runs(t, replicated([ loop_tasks[t] EXCEPT !.response = response ],
                                    response.kind = "status" /\ response.status = 200),
                     answered(t, response))
    /\ returned' = None
    /\ UNCHANGED << region_config, regions, session >>
    /\ UNCHANGED beside_region

\* close up to `await self._session.close()` (lines 71-72)
close_enter(t) ==
    /\ t \in 1..Len(loop_tasks)
    /\ loop_tasks[t].coro = "close"
    /\ Runnable(t)
    /\ IF session = "None"
       THEN /\ loop_tasks' = [ loop_tasks EXCEPT ![t] = finish(@, None) ]
            /\ UNCHANGED session
       ELSE /\ loop_tasks' = [ loop_tasks EXCEPT ![t].pc = "await_close" ]
            /\ session' = "closed"
    /\ returned' = None
    /\ UNCHANGED << region_config, regions, http >>
    /\ UNCHANGED beside_region

\* close after the await (line 73)
close_returns(t) ==
    /\ t \in 1..Len(loop_tasks)
    /\ loop_tasks[t].pc = "await_close"
    /\ loop_tasks' = [ loop_tasks EXCEPT ![t] = finish(@, None) ]
    /\ session' = "None"
    /\ returned' = None
    /\ UNCHANGED << region_config, regions, http >>
    /\ UNCHANGED beside_region

---------------------------------------------------------------------------
(* Specifications *)

\* AnalysisError objects a caller may construct, retry_count within max_retries
DirectErrors(limit) ==
    { err \in [ error_type : { Lower(TimeoutError) }, severity : { HIGH },
                recoverable : BOOLEAN, recovery_strategy : RecoveryStrategy,
                timestamp : { 0 }, retry_count : 0..limit, max_retries : 0..limit ] :
        err.retry_count <= err.max_retries }

\* the error execute_with_recovery would hand to a fallback strategy
MemoryErrorInstance == create_error_from_exception(Exception(MemoryError, 1), 0)

\* General specification: calls of execute_with_recovery on one manager, and
\* the strategies and should_retry applied directly on a fresh manager.
Next ==
    \/ /\ pc = "idle" /\ now < MaxCalls
       /\ \E op \in Operations(ExceptionTypes, {0, 1, DefaultMaxRetries + 1}) :
            \E kw \in { NoFeatures, Features(FeatureList(MaxFeatures)) } :
              execute_with_recovery(op, kw)
    \/ ewr_operation_returns
    \/ ewr_operation_raises
    \/ attempt_recovery
    \/ ewr_recovery_result
    \/ /\ pc = "idle" /\ now = 0
       /\ \E s \in RetryStrategies, err \in DirectErrors(MaxRetriesBound) :
            \E op \in Operations({TimeoutError}, 0..(MaxRetriesBound + 1)) :
              call_strategy(s, err, op, NoFeatures)
    \/ /\ pc = "idle" /\ now = 0
       /\ \E s \in FallbackStrategies, kw \in Kwargs :
            \E op \in Operations({MemoryError}, 0..1) :
              call_strategy(s, MemoryErrorInstance, op, kw)
    \/ /\ pc = "idle" /\ now = 0
       /\ \E err \in DirectErrors(MaxRetriesBound) : call_should_retry(err)
    \/ retry_entry
    \/ retry_sleep
    \/ retry_operation_returns
    \/ retry_operation_raises
    \/ reduce_complexity_entry
    \/ simpler_analysis_entry
    \/ fallback_operation_settles
    \/ strategy_returns
    \/ call_completes

Spec == Init /\ [][Next]_vars

\* Liveness specification: the calls of Spec on an event loop that resumes
\* every coroutine whose awaited operation or sleep has completed, every
\* awaited operation and sleep completing.
Resumed ==
    \/ ewr_operation_returns
    \/ ewr_operation_raises
    \/ attempt_recovery
    \/ ewr_recovery_result
    \/ retry_entry
    \/ retry_sleep
    \/ retry_operation_returns
    \/ retry_operation_raises
    \/ reduce_complexity_entry
    \/ simpler_analysis_entry
    \/ fallback_operation_settles
    \/ strategy_returns

SpecLive == Init /\ [][Next]_vars /\ WF_vars(Resumed)

\* Append specification: the failing calls of the history specification, and
\* after them a retry strategy and a fallback awaited directly on the manager
\* whose history is full.
TimeoutErrorInstance == create_error_from_exception(Exception(TimeoutError, 1), 0)

NextAppend ==
    \/ /\ pc = "idle" /\ now < MaxHistoryCalls
       /\ \E op \in Operations({TimeoutError}, {1}) :
            /\ op.result = "value"
            /\ execute_with_recovery(op, NoFeatures)
    \/ ewr_operation_raises
    \/ attempt_recovery
    \/ ewr_recovery_result
    \/ /\ pc = "idle" /\ now = MaxHistoryCalls
       /\ \E op \in Operations({TimeoutError}, {0, 1, DefaultMaxRetries}) :
            call_strategy(retry_with_backoff, TimeoutErrorInstance, op, NoFeatures)
    \/ /\ pc = "idle" /\ now = MaxHistoryCalls
       /\ \E op \in Operations({MemoryError}, {0, 1}) :
            call_strategy(reduce_complexity_fallback, MemoryErrorInstance, op, Features(FeatureList(2)))
    \/ retry_entry
    \/ retry_sleep
    \/ retry_operation_returns
    \/ retry_operation_raises
    \/ reduce_complexity_entry
    \/ fallback_operation_settles
    \/ strategy_returns
    \/ call_completes

SpecAppend == Init /\ [][NextAppend]_vars

\* a caller stores a strategy in the public dict recovery_strategies (line 59)
\* under a strategy name: manager.recovery_strategies[name] = strategy_func
register_strategy(name, strategy_func) ==
    /\ pc = "idle"
    /\ name \notin DOMAIN recovery_strategies
    /\ recovery_strategies' =
         [ key \in DOMAIN recovery_strategies \cup { name } |->
             IF key = name THEN strategy_func ELSE recovery_strategies[key] ]
    /\ UNCHANGED << error_history, now, pc, entry, operation, kwargs,
                    invocations, exc, error, strategy, attempt, range_stop,
                    sleeps, strategy_result, recovery_result, outcome >>
    /\ UNCHANGED beside_recovery

\* Registered specification: execute_with_recovery on a manager to which a
\* caller has added a retry strategy under the name "retry", so that the
\* lookup of _attempt_recovery finds it; the operations raise TimeoutError a
\* number of times and then return a value, {} or None.
RegisteredOperations ==
    [ type : { TimeoutError }, fails : { 0, 1, 2, DefaultMaxRetries + 1 },
      result : { "value", "None", "empty" } ]

NextRegistered ==
    \/ /\ now = 0
       /\ \E s \in RetryStrategies : register_strategy(RETRY, s)
    \/ /\ pc = "idle" /\ now < MaxCalls
       /\ \E op \in RegisteredOperations : execute_with_recovery(op, NoFeatures)
    \/ ewr_operation_returns
    \/ ewr_operation_raises
    \/ attempt_recovery
    \/ ewr_recovery_result
    \/ retry_entry
    \/ retry_sleep
    \/ retry_operation_returns
    \/ retry_operation_raises
    \/ strategy_returns
    \/ call_completes

SpecRegistered == Init /\ [][NextRegistered]_vars

\* Backoff specification: _retry_with_backoff awaited directly on errors
\* whose max_retries reaches MaxBackoffRetries.
NextBackoff ==
    \/ /\ pc = "idle" /\ now < 1
       /\ \E err \in DirectErrors(MaxBackoffRetries) :
            \E op \in Operations({TimeoutError}, 0..(MaxBackoffRetries + 1)) :
              /\ err.recoverable /\ err.recovery_strategy = RETRY
              /\ call_strategy(retry_with_backoff, err, op, NoFeatures)
    \/ retry_entry
    \/ retry_sleep
    \/ retry_operation_returns
    \/ retry_operation_raises
    \/ strategy_returns
    \/ call_completes

SpecBackoff == Init /\ [][NextBackoff]_vars

\* History specification: failing calls of execute_with_recovery, one after
\* the other, on one manager until the history has overflowed.
NextHistory ==
    \/ /\ pc = "idle" /\ now < MaxHistoryCalls
       /\ \E op \in Operations({TimeoutError}, {1}) :
            /\ op.result = "value"
            /\ execute_with_recovery(op, NoFeatures)
    \/ ewr_operation_raises
    \/ attempt_recovery
    \/ ewr_recovery_result
    \/ call_completes

SpecHistory == Init /\ [][NextHistory]_vars

\* feature names, binary payloads and feature arguments of the worker tasks
DispatchFeatures == { FeaturePool[i] : i \in 1..MaxDispatchFeatures }

FeatureArgs(n) ==
    { None } \cup { List(items) : items \in UNION { [ 1..k -> DispatchFeatures ] : k \in 0..n } }

BinaryArgs == { None, Bytes(0), Bytes(16) }

WorkerHosts ==
    [ psutil : { "installed", "missing" }, counters : { "ok", "ImportError", "OSError" } ]

\* Dispatch specification: the worker runs one task after the other.
NextDispatch ==
    \/ /\ d_pc = "idle"
       /\ \E binary_data \in BinaryArgs, features \in FeatureArgs(MaxDispatchFeatures) :
            analyze_binary_parallel(binary_data, features)
    \/ parallel_not_iterable
    \/ parallel_engine_returns
    \/ parallel_engine_raises
    \/ parallel_returns
    \/ /\ d_pc = "idle"
       /\ \E binary_chunk \in BinaryArgs, offset \in { 0, 16 } :
            \E features \in FeatureArgs(MaxDispatchFeatures) :
              analyze_binary_chunk(binary_chunk, offset, features)
    \/ chunk_fails_before_engine
    \/ chunk_engine_returns
    \/ chunk_engine_raises
    \/ /\ d_pc = "idle"
       /\ \E host \in WorkerHosts : get_worker_stats(host)
    \/ stats_import
    \/ stats_try
    \/ task_completes

SpecDispatch == Init /\ [][NextDispatch]_vars

\* region ids, one id no manager knows, and the answers and latencies of the far side
RegionNames == << "A", "B", "C" >>
UnknownRegion == "D"
Responses == { Status(200), Status(503), Raised("connection refused"), Raised("") }
ProbeResponses == { Status(200), Status(503), Raised("connection refused") }
Latencies == { 10, 50 }

\* configurations for the health checks: replication plays no part
HealthConfigs ==
    { RegionConfig(enabled, RegionNames, Str(current_region), None, FALSE, << >>) :
        enabled \in BOOLEAN, current_region \in { "A", "local" } }

\* Region specification: one manager whose callers await one coroutine at a
\* time; the probes of check_all_regions run concurrently.
NextRegion ==
    \/ \E config \in HealthConfigs : MultiRegionManager(config)
    \/ /\ loop_tasks = << >>
       /\ initialize
    \/ /\ loop_tasks = << >>
       /\ create_task("check_all_regions", "None")
    \/ /\ loop_tasks = << >>
       /\ \E region \in { RegionNames[i] : i \in 1..Len(RegionNames) } \cup { UnknownRegion } :
            create_task("check_region_health", region)
    \/ /\ loop_tasks = << >>
       /\ create_task("close", "None")
    \/ \E t \in 1..Len(loop_tasks), latency \in Latencies : check_region_health_enter(t, latency)
    \/ \E t \in 1..Len(loop_tasks), response \in Responses, latency \in Latencies :
         check_region_health_settles(t, response, latency)
    \/ \E t \in 1..Len(loop_tasks) : check_all_regions_enter(t)
    \/ \E t \in 1..Len(loop_tasks) : check_all_regions_returns(t)
    \/ \E t \in 1..Len(loop_tasks) : close_enter(t)
    \/ \E t \in 1..Len(loop_tasks) : close_returns(t)
    \/ tasks_collected
    \/ /\ Quiescent
       /\ call("get_best_region", get_best_region)
    \/ /\ Quiescent
       /\ call("is_current_region_primary", Bool(is_current_region_primary))

SpecRegion == Init /\ [][NextRegion]_vars

\* configurations for is_current_region_primary: every combination of the flags
PrimaryConfigs ==
    { RegionConfig(enabled, << "A", "B" >>, Str(current_region), primary_region, replication_enabled, << "B" >>) :
        enabled \in BOOLEAN, current_region \in { "A", "B" },
        primary_region \in { None, Str("A"), Str("B") }, replication_enabled \in BOOLEAN }

\* Primary specification: a manager under every combination of its flags whose
\* caller probes region A and asks whether the current region is primary.
NextPrimary ==
    \/ \E config \in PrimaryConfigs : MultiRegionManager(config)
    \/ /\ loop_tasks = << >>
       /\ initialize
    \/ /\ loop_tasks = << >>
       /\ create_task("check_region_health", "A")
    \/ \E t \in 1..Len(loop_tasks), latency \in Latencies : check_region_health_enter(t, latency)
    \/ \E t \in 1..Len(loop_tasks), response \in ProbeResponses, latency \in Latencies :
         check_region_health_settles(t, response, latency)
    \/ tasks_collected
    \/ /\ Quiescent
       /\ call("is_current_region_primary", Bool(is_current_region_primary))

SpecPrimary == Init /\ [][NextPrimary]_vars

\* configurations for replication: targets known and unknown to the manager
ReplicationConfigs ==
    { RegionConfig(enabled, RegionNames, Str("A"), None, replication_enabled, replication_regions) :
        enabled \in BOOLEAN, replication_enabled \in BOOLEAN,
        replication_regions \in { RegionNames, << "B", UnknownRegion, "C" >>, << "B", "B" >>, << >> } }

\* Replication specification: a manager, with or without a session, whose
\* caller replicates to one region or to all, one call at a time.
NextReplicate ==
    \/ \E config \in ReplicationConfigs : MultiRegionManager(config)
    \/ /\ loop_tasks = << >>
       /\ initialize
    \/ /\ loop_tasks = << >>
       /\ create_task("replicate_to_all", "None")
    \/ /\ loop_tasks = << >>
       /\ \E region \in { "A", UnknownRegion } : create_task("replicate_to_region", region)
    \/ /\ loop_tasks = << >>
       /\ create_task("close", "None")
    \/ \E t \in 1..Len(loop_tasks) : replicate_enter(t)
    \/ \E t \in 1..Len(loop_tasks), response \in ProbeResponses : replicate_settles(t, response)
    \/ \E t \in 1..Len(loop_tasks) : close_enter(t)
    \/ \E t \in 1..Len(loop_tasks) : close_returns(t)
    \/ tasks_collected

SpecReplicate == Init /\ [][NextReplicate]_vars

\* Concurrent specification: probes, replications and get_best_region calls
\* of several callers on one manager of two regions, up to MaxConcurrent
\* coroutines in flight at a time; a probe is answered 200, 503 or by an
\* exception, a replication POST 200 or 503.
ConcurrentConfigs ==
    { RegionConfig(TRUE, << "A", "B" >>, Str("A"), None, TRUE, << "B", "A" >>) }
ConcurrentResponses == { Status(200), Status(503) }
ConcurrentLatencies == { 10 }

NextConcurrent ==
    \/ \E config \in ConcurrentConfigs : MultiRegionManager(config)
    \/ /\ loop_tasks = << >>
       /\ initialize
    \/ /\ Len(loop_tasks) < MaxConcurrent
       /\ \E region \in { "A", "B" } : create_task("check_region_health", region)
    \/ /\ Len(loop_tasks) < MaxConcurrent
       /\ create_task("replicate_to_region", "B")
    \/ /\ Len(loop_tasks) < MaxConcurrent
       /\ create_task("replicate_to_all", "None")
    \/ \E t \in 1..Len(loop_tasks), latency \in ConcurrentLatencies : check_region_health_enter(t, latency)
    \/ \E t \in 1..Len(loop_tasks), response \in ProbeResponses, latency \in ConcurrentLatencies :
         check_region_health_settles(t, response, latency)
    \/ \E t \in 1..Len(loop_tasks) : replicate_enter(t)
    \/ \E t \in 1..Len(loop_tasks), response \in ConcurrentResponses : replicate_settles(t, response)
    \/ tasks_collected
    \/ call("get_best_region", get_best_region)

SpecConcurrent == Init /\ [][NextConcurrent]_vars

\* Session specification: a manager of two regions, with replication enabled
\* or not, whose callers probe and replicate to known and unknown regions
\* before initialize, with the session open, while close is awaited and after
\* it, up to MaxConcurrent coroutines in flight at a time.
SessionConfigs ==
    { RegionConfig(TRUE, << "A", "B" >>, Str("A"), None, replication_enabled, << "B" >>) :
        replication_enabled \in BOOLEAN }

NextSession ==
    \/ \E config \in SessionConfigs : MultiRegionManager(config)
    \/ /\ loop_tasks = << >>
       /\ initialize
    \/ /\ Len(loop_tasks) < MaxConcurrent
       /\ \E region \in { "A", UnknownRegion } : create_task("check_region_health", region)
    \/ /\ Len(loop_tasks) < MaxConcurrent
       /\ \E region \in { "B", UnknownRegion } : create_task("replicate_to_region", region)
    \/ /\ Len(loop_tasks) < MaxConcurrent
       /\ create_task("close", "None")
    \/ \E t \in 1..Len(loop_tasks), latency \in ConcurrentLatencies : check_region_health_enter(t, latency)
    \/ \E t \in 1..Len(loop_tasks), response \in ConcurrentResponses, latency \in ConcurrentLatencies :
         check_region_health_settles(t, response, latency)
    \/ \E t \in 1..Len(loop_tasks) : replicate_enter(t)
    \/ \E t \in 1..Len(loop_tasks), response \in ConcurrentResponses : replicate_settles(t, response)
    \/ \E t \in 1..Len(loop_tasks) : close_enter(t)
    \/ \E t \in 1..Len(loop_tasks) : close_returns(t)
    \/ tasks_collected
    \/ call("get_best_region", get_best_region)

SpecSession == Init /\ [][NextSession]_vars

\* operations of two unrelated callers
ReentrantTypes == { TimeoutError, MemoryError, ValueError }

\* Reentrancy specification: two callers on one event loop, each awaiting one
\* execute_with_recovery on the shared manager; the loop switches between
\* them where the call in flight is suspended.
NextReentrant ==
    \/ /\ pc = "idle"
       /\ \E op \in Operations(ReentrantTypes, { 0, 1 }) :
            execute_with_recovery(op, NoFeatures)
    \/ switch
    \/ ewr_operation_returns
    \/ ewr_operation_raises
    \/ attempt_recovery
    \/ ewr_recovery_result

SpecReentrant == Init /\ [][NextReentrant]_vars

---------------------------------------------------------------------------
(* Claims *)

\* the call in flight is execute_with_recovery and has finished
EwrDone == pc = "done" /\ entry = "execute_with_recovery"

\* the failure raised by the first invocation of the operation
OriginalFailure == Exception(operation.type, 1)

\* C1: an operation whose first invocation raises a retry-classified failure
\* and whose next invocation succeeds makes execute_with_recovery return the
\* value of the successful invocation; the caller sees no exception.
C1_FailOnceThenSucceedReturns ==
    (EwrDone /\ operation.fails = 1 /\ error.recovery_strategy = RETRY)
        => outcome = Return(IF operation.result = "None" THEN None ELSE Value(2))

\* C2: an operation that fails on every invocation with a retry-classified
\* failure is re-invoked exactly max_retries times after the initial
\* invocation, and only then the failure of the initial invocation is raised.
C2_ExhaustsMaxRetriesThenRaises ==
    (EwrDone /\ operation.fails > DefaultMaxRetries /\ error.recovery_strategy = RETRY)
        => /\ Len(invocations) = 1 + DefaultMaxRetries
           /\ outcome = Raise(OriginalFailure)

\* C3: every execute_with_recovery call ends by returning a result or by
\* raising the failure of the operation's first invocation, never any other
\* failure; it raises that failure whenever the error is not recoverable, no
\* strategy is found, or the strategy raised or returned None.
C3_ResultOrOriginalFailure ==
    EwrDone =>
        /\ outcome.kind \in {"return", "raise"}
        /\ outcome.kind = "raise" =>
             /\ invocations[1].raised
             /\ outcome.exc = OriginalFailure
        /\ ( /\ invocations[1].raised
             /\ \/ ~error.recoverable
                \/ error.recovery_strategy \notin DOMAIN recovery_strategies
                \/ strategy_result.kind = "raise"
                \/ strategy_result = Return(None) )
             => outcome = Raise(OriginalFailure)

\* C3 witness: a recoverable failure for which no strategy was found has
\* been raised to the caller.
C3_Witness ==
    /\ EwrDone
    /\ error.recoverable
    /\ strategy = "None"
    /\ outcome = Raise(Exception(TimeoutError, 1))

\* C4: when the first invocation succeeds, execute_with_recovery returns that
\* result unchanged, has invoked the operation exactly once, and the step
\* that returns leaves error_history as it was.
C4_SuccessIsPassedThrough ==
    /\ [](( EwrDone /\ operation.fails = 0 ) =>
            /\ outcome = Return(IF operation.result = "None" THEN None ELSE Value(1))
            /\ Len(invocations) = 1
            /\ ~invocations[1].raised)
    /\ [][( entry = "execute_with_recovery" /\ operation.fails = 0 )
            => error_history' = error_history]_vars
    /\ [][( pc = "idle" /\ pc' = "ewr_await_operation" )
            => error_history' = error_history]_vars

\* C4 witness: a successful call has returned on a manager whose history
\* holds an earlier failure.
C4_Witness ==
    /\ EwrDone
    /\ operation.fails = 0
    /\ outcome = Return(Value(1))
    /\ Len(error_history) = 1

\* the strategy the claim C5 expects for a lower-cased type name
C5_ExpectedStrategy(error_type) ==
    IF Contains(error_type, s_timeout) THEN retry_with_backoff
    ELSE IF Contains(error_type, s_memory) THEN reduce_complexity_fallback
    ELSE IF Contains(error_type, s_network) \/ Contains(error_type, s_connection)
    THEN retry_with_exponential_backoff
    ELSE IF Contains(error_type, s_database) THEN retry_with_jitter
    ELSE "None"

\* C5: the strategy run for a failure is the one registered for its
\* classified kind: timeout runs retry-with-backoff, memory the
\* feature-reduction fallback, network exponential-backoff-with-jitter and
\* database retry-with-jitter.
C5_StrategyRegisteredForKindRuns ==
    ( entry = "execute_with_recovery" /\ pc \in {"ewr_recovery_result", "done"}
      /\ Len(invocations) > 0 /\ invocations[1].raised )
        => strategy = C5_ExpectedStrategy(error.error_type)

\* the classification rules in priority order: the substrings of a rule,
\* and severity, recoverable, strategy
C6_Rules ==
    << [ any |-> { s_timeout }, severity |-> "high", recoverable |-> TRUE, strategy |-> "retry" ],
       [ any |-> { s_memory }, severity |-> "critical", recoverable |-> TRUE, strategy |-> "fallback" ],
       [ any |-> { s_network, s_connection }, severity |-> "medium", recoverable |-> TRUE, strategy |-> "retry" ],
       [ any |-> { s_database }, severity |-> "high", recoverable |-> TRUE, strategy |-> "retry" ],
       [ any |-> { << >> }, severity |-> "medium", recoverable |-> FALSE, strategy |-> "escalate" ] >>

C6_Matches(name, rule) == \E sub \in rule.any : Contains(Lower(name), sub)

C6_FirstMatch(name) ==
    C6_Rules[CHOOSE i \in 1..Len(C6_Rules) :
        /\ C6_Matches(name, C6_Rules[i])
        /\ \A j \in 1..(i - 1) : ~C6_Matches(name, C6_Rules[j])]

\* C6: classification takes the first rule of the priority list timeout,
\* memory, network or connection, database, default whose substring occurs in
\* the lower-cased type name; recoverable is false only for the default rule.
C6_ClassificationIsPriorityList ==
    ( entry = "execute_with_recovery" /\ Len(invocations) > 0 /\ invocations[1].raised ) =>
        LET rule == C6_FirstMatch(operation.type) IN
        /\ error.error_type = Lower(operation.type)
        /\ error.severity = rule.severity
        /\ error.recoverable = rule.recoverable
        /\ error.recovery_strategy = rule.strategy
        /\ ~error.recoverable <=> rule = C6_Rules[Len(C6_Rules)]

\* C6 witness: a type name matching two rules was classified by the earlier.
C6_Witness ==
    /\ entry = "execute_with_recovery"
    /\ pc = "ewr_attempt_recovery"
    /\ operation.type = MemoryTimeoutError
    /\ error.severity = HIGH
    /\ error.recovery_strategy = RETRY

\* C7: should_retry() is true exactly when recoverable is true, the strategy
\* is retry and retry_count < max_retries; it is false once retry_count
\* equals max_retries.
C7_ShouldRetryIff ==
    ( pc = "done" /\ entry = "should_retry" ) =>
        /\ outcome.kind = "return"
        /\ outcome.value.value =
             ( error.recoverable /\ error.recovery_strategy = "retry"
               /\ error.retry_count < error.max_retries )
        /\ error.retry_count = error.max_retries => outcome.value.value = FALSE

\* C7 witness: should_retry() answered false for a recoverable retry error
\* whose retry_count has reached max_retries.
C7_Witness ==
    /\ pc = "done" /\ entry = "should_retry"
    /\ error.recoverable /\ error.recovery_strategy = RETRY
    /\ error.max_retries > 0 /\ error.retry_count = error.max_retries
    /\ outcome.value.value = FALSE

\* a retry strategy is running on the error
C8_RetryRunning ==
    strategy \in RetryStrategies /\ pc \in {"strategy_entry", "retry_sleep", "retry_await_operation", "strategy_done"}

\* C8: while a retry strategy runs, retry_count <= max_retries; a failed
\* retry invocation increments retry_count by exactly one, a successful one
\* and every other step of the strategy leave it unchanged.
C8_RetryCountBounded ==
    /\ [](C8_RetryRunning => error.retry_count <= error.max_retries)
    /\ [][C8_RetryRunning =>
            IF pc = "retry_await_operation" /\ invocations'[Len(invocations')].raised
            THEN error'.retry_count = error.retry_count + 1
            ELSE error'.retry_count = error.retry_count]_vars

\* C8 witness: a retry strategy has ended after failed retries took
\* retry_count from 0 to max_retries.
C8_Witness ==
    /\ strategy \in RetryStrategies /\ pc = "strategy_done"
    /\ Len(invocations) = DefaultMaxRetries
    /\ error.max_retries = DefaultMaxRetries
    /\ error.retry_count = error.max_retries

\* appends to error_history so far, every call of the history specification
\* failing
C9_Appended == IF pc = "ewr_await_operation" THEN now - 1 ELSE now

\* C9: error_history holds at most 1000 entries, in arrival order; beyond the
\* bound the oldest entry is evicted and the newest retained.
C9_HistoryBounded ==
    /\ Len(error_history) <= 1000
    /\ Len(error_history) = Min(C9_Appended, 1000)
    /\ \A i \in 1..(Len(error_history) - 1) :
         error_history[i + 1].timestamp = error_history[i].timestamp + 1
    /\ C9_Appended > 0 => error_history[Len(error_history)].timestamp = C9_Appended

\* C9 witness: after 1001 appends the first error is gone and the 1001st is
\* last.
C9_Witness ==
    /\ C9_Appended = 1001
    /\ Len(error_history) = 1000
    /\ error_history[1].timestamp = 2
    /\ error_history[1000].timestamp = 1001

\* the delays in seconds claimed for attempts 0..5
C10_Seconds == << 1, 2, 4, 8, 16, 30 >>

\* retry_count of the error when the strategy was entered
C10_InitialRetryCount ==
    error.retry_count - Cardinality({ j \in 1..Len(invocations) : invocations[j].raised })

\* C10: in retry-with-backoff the delay slept before attempt k is
\* min(1 * 2^k, 30) seconds: 1, 2, 4, 8, 16 for attempts 0..4, 30 for
\* attempt 5 (and for every later attempt).
C10_BackoffDelays ==
    strategy = retry_with_backoff =>
        \A i \in 1..Len(sleeps) :
            LET k == sleeps[i].attempt IN
            /\ k = C10_InitialRetryCount + (i - 1)
            /\ sleeps[i].delay = 1000 * (IF k <= 5 THEN C10_Seconds[k + 1] ELSE 30)

\* C10 witness: attempts 0..5 have slept, the last one 30 seconds.
C10_Witness ==
    /\ strategy = retry_with_backoff
    /\ Len(sleeps) = 6
    /\ [ i \in 1..6 |-> sleeps[i].delay ] = << 1000, 2000, 4000, 8000, 16000, 30000 >>
    /\ sleeps[6].attempt = 5

\* a feature-mode task has finished on a list of features
ParallelDone ==
    /\ d_pc = "done"
    /\ d_task = "analyze_binary_parallel"
    /\ d_input.features.kind = "list"

\* the feature names of the list are pairwise distinct
Distinct(items) == \A i, j \in 1..Len(items) : items[i] = items[j] => i = j

\* the last position of a name in a list
LastRun(items, name) ==
    CHOOSE i \in 1..Len(items) : items[i] = name /\ \A j \in (i + 1)..Len(items) : items[j] # name

\* what the i-th engine call of a feature-mode task leaves in the results
RunEntry(i) ==
    IF d_engine[i].raises THEN feature_error(engine_failed)
    ELSE EngineResult(d_input.features.items[i], i)

\* the number of items of a dict that are error records, or are not
ErrorRecords(d) == Cardinality({ i \in 1..Len(d) : d[i].value.kind = "error" })
EngineOutputs(d) == Cardinality({ i \in 1..Len(d) : d[i].value.kind # "error" })
Failures == Cardinality({ i \in 1..Len(d_engine) : d_engine[i].raises })

\* C11 as stated: N features with k failures always give N-k engine outputs
\* and k error records in the results of a success envelope.
C11_OneEntryPerListedFeature ==
    (ParallelDone /\ d_input.binary_data.kind = "bytes") =>
        /\ d_outcome.kind = "return"
        /\ d_outcome.value.success
        /\ EngineOutputs(d_outcome.value.results) = Len(d_input.features.items) - Failures
        /\ ErrorRecords(d_outcome.value.results) = Failures

\* C11 (amended): feature-mode dispatch calls the engine once for every
\* position of the feature list, in order, whatever the earlier calls did; when
\* nothing fails outside the loop the envelope has success = TRUE and its
\* results hold one entry per feature NAME, which is the outcome of the last
\* run of that name (engine output, or an error record if that run raised).
\* For pairwise distinct names this is one entry per feature: N features with
\* k failures give N-k engine outputs and k error records.
C11_EveryFeatureRunsAndIsRecorded ==
    ParallelDone =>
        LET items == d_input.features.items IN
        /\ Len(d_engine) = Len(items)
        /\ \A i \in 1..Len(items) : d_engine[i].feature = items[i]
        /\ d_outcome.kind = "return"
        /\ d_outcome.value.success = (d_input.binary_data.kind = "bytes")
        /\ d_outcome.value.success =>
             LET results == d_outcome.value.results IN
             /\ d_outcome.value = parallel_success(items, results, d_input.binary_data.len)
             /\ dict_keys(results) = { items[i] : i \in 1..Len(items) }
             /\ Len(results) = Cardinality(dict_keys(results))
             /\ \A name \in dict_keys(results) :
                  dict_item(results, name) = RunEntry(LastRun(items, name))
             /\ Distinct(items) =>
                  /\ Len(results) = Len(items)
                  /\ EngineOutputs(results) = Len(items) - Failures
                  /\ ErrorRecords(results) = Failures

\* three distinct features where the first and third succeed and the second raises
C11_Witness ==
    /\ ParallelDone
    /\ Len(d_input.features.items) = 3
    /\ Distinct(d_input.features.items)
    /\ ~ d_engine[1].raises /\ d_engine[2].raises /\ ~ d_engine[3].raises
    /\ d_outcome.value.success
    /\ ErrorRecords(d_outcome.value.results) = 1

\* a chunk-mode task has finished
ChunkDone == d_pc = "done" /\ d_task = "analyze_binary_chunk"

\* C12: chunk-mode dispatch never raises to its caller: it returns an envelope
\* with the offset it was given; the envelope has success = TRUE exactly when
\* the engine returned, and otherwise is {offset, error, success = FALSE} with
\* the text of the failure (bad chunk, empty or missing feature list, engine).
C12_ChunkNeverRaises ==
    /\ d_task = "analyze_binary_chunk" => d_outcome.kind # "raise"
    /\ ChunkDone =>
         /\ d_outcome.kind = "return"
         /\ d_outcome.value.offset = d_input.offset
         /\ d_outcome.value.success =
              (chunk_arguments_ok /\ Len(d_engine) = 1 /\ ~ d_engine[1].raises)
         /\ ~ d_outcome.value.success =>
              /\ DOMAIN d_outcome.value = { "offset", "error", "success" }
              /\ d_outcome.value.error =
                   (IF d_input.binary_chunk.kind # "bytes" THEN no_len
                    ELSE IF d_input.features.kind # "list" THEN not_subscriptable
                    ELSE IF Len(d_input.features.items) = 0 THEN index_out_of_range
                    ELSE engine_failed)

\* a chunk at a non-zero offset analysed with an empty feature list
C12_Witness ==
    /\ ChunkDone
    /\ d_input.offset > 0
    /\ d_input.binary_chunk.kind = "bytes"
    /\ d_input.features = List(<< >>)
    /\ d_outcome = Return(chunk_failure(d_input.offset, index_out_of_range))

\* C19: when the resource counters cannot be collected (psutil is not
\* installed, or collecting fails), get_worker_stats returns the partial
\* payload of worker identity and error note.
C19_StatsDegradeGracefully ==
    (/\ d_pc = "done"
     /\ d_task = "get_worker_stats"
     /\ (d_input.psutil = "missing" \/ d_input.counters # "ok")) =>
        d_outcome = Return(worker_stats_partial)

\* the indices of the regions whose healthy flag is set
HealthyIndices == { i \in 1..Len(regions) : regions[i].healthy }

\* C13: get_best_region returns, among the regions whose healthy flag is true,
\* the one with the least latency_ms, the first in iteration order on a tie;
\* when no region is healthy it returns the configured current region.
C13_BestRegionIsFirstMinimum ==
    (returned.kind = "returned" /\ returned.call = "get_best_region") =>
        IF HealthyIndices = {}
        THEN returned.value = region_config.current_region
        ELSE \E i \in HealthyIndices :
               /\ returned.value = Str(regions[i].region)
               /\ \A j \in HealthyIndices :
                    /\ regions[i].latency_ms <= regions[j].latency_ms
                    /\ regions[i].latency_ms = regions[j].latency_ms => i <= j

\* A healthy at 50, B healthy at 10, C unhealthy: B is returned
C13_Witness ==
    /\ returned.kind = "returned" /\ returned.call = "get_best_region"
    /\ Len(regions) = 3
    /\ regions[1].healthy /\ regions[1].latency_ms = 50
    /\ regions[2].healthy /\ regions[2].latency_ms = 10
    /\ ~ regions[3].healthy
    /\ returned.value = Str("B")

\* the finished replicate_to_all calls, and the POSTs a task has sent
ReplicateAllDone ==
    { t \in 1..Len(loop_tasks) :
        loop_tasks[t].coro = "replicate_to_all" /\ loop_tasks[t].pc = "done" }
Posts(t) == SelectSeq(http, LAMBDA request : request.task = t /\ request.method = "POST")

\* C14 as stated: replicate_to_all POSTs to every configured replication
\* target and returns a map with one entry per target.
C14_PostsToEveryTarget ==
    \A t \in ReplicateAllDone :
        /\ Len(Posts(t)) = Len(region_config.replication_regions)
        /\ loop_tasks[t].outcome.kind = "return"
        /\ Len(loop_tasks[t].outcome.value.items) = Len(region_config.replication_regions)

\* the targets replicate_to_all can POST to, in configured order
RECURSIVE Eligible(_)
Eligible(list) ==
    IF list = << >> THEN << >>
    ELSE (IF Head(list) \in region_keys /\ session = "open" THEN << Head(list) >> ELSE << >>)
         \o Eligible(Tail(list))

\* the last POST of task t to a region was answered 200
LastPostOk(t, region) ==
    \E i \in 1..Len(http) :
        /\ http[i].task = t /\ http[i].method = "POST" /\ http[i].region = region
        /\ \A j \in (i + 1)..Len(http) : ~ (http[j].task = t /\ http[j].region = region)
        /\ http[i].answer = Status(200)

\* C14 (amended): with replication disabled replicate_to_all returns an empty
\* map and sends nothing. With replication enabled it never raises, and it
\* POSTs, in the configured order and whatever the earlier answers were, to
\* every target that is a region of the manager's map, provided the session
\* is initialized; it POSTs to no other target. The map has one entry per
\* distinct target: true iff the (last) POST to that target answered 200,
\* false for a POST that raised or answered non-200 and for a target that got
\* no POST.
C14_EveryEligibleTargetIsPosted ==
    \A t \in ReplicateAllDone :
        LET configured == region_config.replication_regions
            results == loop_tasks[t].outcome.value.items IN
        /\ loop_tasks[t].outcome.kind = "return"
        /\ loop_tasks[t].outcome.value.kind = "dict"
        /\ IF ~ region_config.replication_enabled
           THEN results = << >> /\ Posts(t) = << >>
           ELSE /\ Len(Posts(t)) = Len(Eligible(configured))
                /\ \A i \in 1..Len(Posts(t)) : Posts(t)[i].region = Eligible(configured)[i]
                /\ dict_keys(results) = { configured[i] : i \in 1..Len(configured) }
                /\ Len(results) = Cardinality(dict_keys(results))
                /\ \A region \in dict_keys(results) :
                     dict_item(results, region) = Bool(LastPostOk(t, region))

\* three targets, the second POST raises: the first and third are posted and recorded
C14_Witness ==
    \E t \in ReplicateAllDone :
        /\ region_config.replication_regions = << "A", "B", "C" >>
        /\ Len(Posts(t)) = 3
        /\ Posts(t)[1].answer = Status(200)
        /\ Posts(t)[2].answer.kind = "exception"
        /\ Posts(t)[3].answer = Status(200)
        /\ loop_tasks[t].outcome.value.items =
             << [ key |-> "A", value |-> Bool(TRUE) ], [ key |-> "B", value |-> Bool(FALSE) ],
                [ key |-> "C", value |-> Bool(TRUE) ] >>

\* the calls of check_all_regions in the loop, and the probes of one of them in order
CheckAll == { t \in 1..Len(loop_tasks) : loop_tasks[t].coro = "check_all_regions" }
Probes(t) == Ascending(children(t))

\* C15: once check_all_regions has reached its gather there is one probe per
\* region of the map, in the map's order, and no probe is answered while
\* another has not been started (all are outstanding at once); the call
\* never raises and finishes only when every probe has settled; it returns a
\* map with exactly one entry per region, true iff that region's probe
\* returned true, that is, iff it was answered 200.
C15_GatherWaitsForEveryProbe ==
    \A t \in CheckAll :
        /\ loop_tasks[t].pc \in { "await_gather", "done" } /\ region_config.enabled =>
             /\ Len(Probes(t)) = Len(regions)
             /\ \A i \in 1..Len(regions) :
                  /\ loop_tasks[Probes(t)[i]].coro = "check_region_health"
                  /\ loop_tasks[Probes(t)[i]].region = regions[i].region
             /\ \A u, v \in children(t) :
                  loop_tasks[u].response.kind # "None" => loop_tasks[v].pc # "ready"
        /\ loop_tasks[t].outcome.kind # "raise"
        /\ loop_tasks[t].pc = "done" =>
             /\ \A u \in children(t) : loop_tasks[u].pc = "done"
             /\ loop_tasks[t].outcome.kind = "return"
             /\ loop_tasks[t].outcome.value.kind = "dict"
             /\ LET results == loop_tasks[t].outcome.value.items IN
                /\ Len(results) = Len(regions)
                /\ \A i \in 1..Len(regions) :
                     /\ results[i].key = regions[i].region
                     /\ results[i].value = Bool(loop_tasks[Probes(t)[i]].outcome = Return(Bool(TRUE)))
                     /\ results[i].value = Bool(loop_tasks[Probes(t)[i]].response = Status(200))

\* three probes, the first raised and the others were answered 200
C15_Witness ==
    \E t \in CheckAll :
        /\ loop_tasks[t].pc = "done"
        /\ Len(Probes(t)) = 3
        /\ loop_tasks[Probes(t)[1]].response.kind = "exception"
        /\ loop_tasks[Probes(t)[2]].response = Status(200)
        /\ loop_tasks[Probes(t)[3]].response = Status(200)
        /\ loop_tasks[t].outcome.value.items =
             << [ key |-> "A", value |-> Bool(FALSE) ], [ key |-> "B", value |-> Bool(TRUE) ],
                [ key |-> "C", value |-> Bool(TRUE) ] >>

\* task t is a probe that is settled by this step with an answer or an exception
Settles(t) ==
    /\ t \in 1..Len(loop_tasks) /\ t \in 1..Len(loop_tasks')
    /\ loop_tasks[t].coro = "check_region_health"
    /\ loop_tasks[t].pc # "done" /\ loop_tasks'[t].pc = "done"
    /\ loop_tasks'[t].response.kind # "None"

\* the text a probe records for an answer that is not 200
ErrorText(response) ==
    IF response.kind = "status" THEN Str(<< "HTTP ", response.status >>) ELSE Str(<< response.text >>)

\* C16: the healthy flag of a region changes only in a step that settles a
\* check_region_health probe of that region; a probe that settles sets
\* healthy = TRUE iff it was answered 200, on an exception or another status
\* it sets healthy = FALSE and records the error text, and it returns the
\* flag it has just set.
C16_HealthChangesOnlyByItsProbe ==
    [][ /\ constructed =>
            \A i \in 1..Len(regions) :
                regions'[i].healthy # regions[i].healthy =>
                    \E t \in 1..Len(loop_tasks) :
                        Settles(t) /\ loop_tasks[t].region = regions[i].region
        /\ \A t \in 1..Len(loop_tasks) :
              Settles(t) =>
                  LET status == regions'[region_index(loop_tasks[t].region)]
                      response == loop_tasks'[t].response IN
                  /\ status.healthy = (response = Status(200))
                  /\ ~ status.healthy => status.error = ErrorText(response)
                  /\ loop_tasks'[t].outcome = Return(Bool(status.healthy)) ]_vars

\* a region that was healthy is marked unhealthy by a probe answered 503
C16_Witness ==
    \E t \in 1..Len(loop_tasks) :
        /\ loop_tasks[t].coro = "check_region_health"
        /\ loop_tasks[t].pc = "done"
        /\ loop_tasks[t].response = Status(503)
        /\ loop_tasks[t].outcome = Return(Bool(FALSE))
        /\ LET status == regions[region_index(loop_tasks[t].region)] IN
           /\ ~ status.healthy
           /\ status.last_check = utcnow
           /\ status.error = Str(<< "HTTP ", 503 >>)

\* is_current_region_primary has just returned
PrimaryReturned == returned.kind = "returned" /\ returned.call = "is_current_region_primary"

\* C17 as stated: true exactly when replication is disabled, or no primary is
\* configured, or the current region is the primary.
C17_PrimaryUnlessReplicationEnabled ==
    PrimaryReturned =>
        returned.value = Bool(\/ ~ region_config.replication_enabled
                              \/ region_config.primary_region = None
                              \/ region_config.current_region = region_config.primary_region)

\* C17 (amended): is_current_region_primary returns true exactly when
\* multi-region support (region_config.enabled) is disabled, or no primary
\* region is configured, or the current region equals the configured primary;
\* the replication flag and the health of the regions play no part.
C17_PrimaryUnlessRegionsEnabled ==
    PrimaryReturned =>
        returned.value = Bool(\/ ~ region_config.enabled
                              \/ region_config.primary_region = None
                              \/ region_config.current_region = region_config.primary_region)

\* regions enabled, replication disabled, another region is primary, A probed healthy: not primary
C17_Witness ==
    /\ PrimaryReturned
    /\ region_config.enabled /\ ~ region_config.replication_enabled
    /\ region_config.primary_region = Str("B") /\ region_config.current_region = Str("A")
    /\ regions[1].healthy
    /\ returned.value = Bool(FALSE)

\* _retry_with_backoff awaited directly, and the number of its invocations that raised
BackoffCall == strategy = retry_with_backoff /\ entry = retry_with_backoff
Raised_invocations == Cardinality({ i \in 1..Len(invocations) : invocations[i].raised })

\* the error as it was handed to the strategy
ErrorOnEntry == [ error EXCEPT !.retry_count = @ - Raised_invocations ]

\* C20: in retry-with-backoff every re-invocation is preceded by one sleep of
\* its own; only the last invocation can have succeeded, and then the strategy
\* is over and its result is that invocation's; the loop goes on only while
\* should_retry() holds; when every re-invocation has raised the strategy
\* returns None with retry_count = max_retries, and when should_retry() is
\* false on entry it returns None with no sleep and no invocation.
C20_BackoffSleepsThenInvokes ==
    BackoffCall =>
        LET n == Len(invocations) IN
        /\ Len(sleeps) = (IF pc = "retry_await_operation" THEN n + 1 ELSE n)
        /\ \A i \in 1..(n - 1) : invocations[i].raised
        /\ pc \in { "retry_sleep", "retry_await_operation" } =>
             /\ should_retry(error)
             /\ \A i \in 1..n : invocations[i].raised
        /\ pc \in { "strategy_done", "done" } =>
             /\ strategy_result.kind = "return"
             /\ (n > 0 /\ ~ invocations[n].raised) =>
                  strategy_result = Return(Invoke(operation, n).value)
             /\ (n > 0 /\ invocations[n].raised) =>
                  /\ strategy_result = Return(None)
                  /\ error.retry_count = error.max_retries
             /\ n > 0 => should_retry(ErrorOnEntry)
             /\ n = 0 => /\ ~ should_retry(error)
                         /\ sleeps = << >>
                         /\ strategy_result = Return(None)

\* two re-invocations raised, the third returned a value after three sleeps
C20_Witness ==
    /\ BackoffCall
    /\ pc = "done"
    /\ Len(invocations) = 3 /\ Len(sleeps) = 3
    /\ invocations[1].raised /\ invocations[2].raised /\ ~ invocations[3].raised
    /\ outcome = Return(Value(3))

\* what execute_with_recovery gives its caller when nothing else runs on the
\* manager: the result of the first invocation, or its exception
Alone(op) == IF op.fails >= 1 THEN Raise(Exception(op.type, 1)) ELSE Invoke(op, 1)

\* a call, given as its locals, has finished as it would have alone
AsAlone(locals) ==
    /\ locals.outcome = Alone(locals.operation)
    /\ Len(locals.invocations) = 1
    /\ locals.sleeps = << >>
    /\ locals.outcome.kind = "raise" =>
         /\ locals.error.error_type = Lower(locals.operation.type)
         /\ locals.error.retry_count = 0
         /\ \E i \in 1..Len(error_history) : error_history[i] = locals.error

\* the number of calls that have logged a failure so far
Failed(locals) == IF locals.entry = "execute_with_recovery" /\ locals.error # NoError THEN 1 ELSE 0

\* C18: two execute_with_recovery calls on one manager that interleave at
\* their awaits each finish as they would alone (same outcome, one
\* invocation, no retry, an error of their own with retry_count 0), and the
\* history holds exactly one entry per failed call and stays within its bound.
C18_InterleavedCallsAreIndependent ==
    /\ (pc = "done" /\ entry = "execute_with_recovery") => AsAlone(Locals)
    /\ (parked.pc = "done" /\ parked.entry = "execute_with_recovery") => AsAlone(parked)
    /\ Len(error_history) = Failed(Locals) + Failed(parked)
    /\ Len(error_history) <= max_history_size

\* both calls failed while the other was in flight: the first failure was
\* logged after both had started, by the call that started second
C18_Witness ==
    /\ pc = "done" /\ parked.pc = "done"
    /\ outcome.kind = "raise" /\ parked.outcome.kind = "raise"
    /\ operation.type # parked.operation.type
    /\ Len(error_history) = 2
    /\ error_history[1].timestamp = 2
    /\ error_history[1] = parked.error /\ error_history[2] = error
    /\ running = 1

\* C21: _attempt_recovery looks the strategy up under the error's strategy
\* name (retry, fallback, skip, escalate), not under its kind; when the
\* strategies hold no entry under that name no strategy runs, the operation
\* is not invoked again and the failure of the first invocation propagates.
C21_LookupByStrategyName ==
    ( entry = "execute_with_recovery" /\ pc \in {"ewr_recovery_result", "done"}
      /\ Len(invocations) > 0 /\ invocations[1].raised )
        => IF error.recoverable /\ error.recovery_strategy \in DOMAIN recovery_strategies
           THEN strategy = recovery_strategies[error.recovery_strategy]
           ELSE /\ strategy = "None"
                /\ Len(invocations) = 1
                /\ pc = "done" => outcome = Raise(OriginalFailure)

\* C21 witness: a timeout failure, whose kind "timeout" is a key of the
\* strategies while its strategy name "retry" is not, has propagated after
\* one invocation.
C21_Witness ==
    /\ EwrDone
    /\ Contains(error.error_type, s_timeout)
    /\ "timeout" \in DOMAIN recovery_strategies
    /\ error.recovery_strategy = RETRY
    /\ RETRY \notin DOMAIN recovery_strategies
    /\ Len(invocations) = 1
    /\ outcome = Raise(OriginalFailure)

\* the feature-reduction fallback is running on a features argument that is
\* absent or a list
C22_Reducing ==
    /\ strategy = reduce_complexity_fallback
    /\ entry = reduce_complexity_fallback
    /\ kwargs.has => kwargs.sized

\* C22: the feature-reduction fallback invokes the operation at most once.
\* With a list of n > 1 features it invokes it with the first n \div 2 of them
\* in their order, and on success returns the result wrapped with
\* fallback_applied = True, reason = "memory_error" and the reduced list; with
\* 0 or 1 features or without a features argument it returns None without an
\* invocation, and it returns None when the invocation raises.
C22_ReductionFallback ==
    /\ []( C22_Reducing =>
            /\ Len(invocations) <= 1
            /\ ( pc \in {"strategy_done", "done"} /\ Len(invocations) = 1 ) =>
                 /\ invocations[1].features = kwargs
                 /\ strategy_result =
                      IF invocations[1].raised THEN Return(None)
                      ELSE Return([ kind |-> "dict", fallback_applied |-> TRUE,
                                    reason |-> "memory_error",
                                    features_key |-> "reduced_features",
                                    features |-> kwargs.features,
                                    result |-> Invoke(operation, 1).value ])
            /\ pc = "done" => outcome = strategy_result )
    /\ [][ ( C22_Reducing /\ pc = "strategy_entry" ) =>
             IF kwargs.has /\ Len(kwargs.features) > 1
             THEN /\ pc' = "fallback_await_operation"
                  /\ kwargs'.has /\ kwargs'.sized
                  /\ kwargs'.features =
                       [ i \in 1..(Len(kwargs.features) \div 2) |-> kwargs.features[i] ]
             ELSE /\ pc' = "strategy_done"
                  /\ strategy_result' = Return(None)
                  /\ invocations' = << >> ]_vars

\* C22 witness: a list of four features was halved to its first two and the
\* invocation with them succeeded.
C22_Witness ==
    /\ C22_Reducing
    /\ pc = "done"
    /\ kwargs = Features(<< FeaturePool[1], FeaturePool[2] >>)
    /\ Len(invocations) = 1 /\ ~invocations[1].raised
    /\ outcome.kind = "return" /\ outcome.value # None

\* the simpler-analysis fallback, awaited directly, has ended
C23_SimplerDone ==
    /\ strategy = fallback_to_simpler_analysis
    /\ entry = fallback_to_simpler_analysis
    /\ pc \in {"strategy_done", "done"}

\* the one invocation of the simpler-analysis fallback was made with the
\* fixed features and its success is returned wrapped
C23_InvokedOnceWithSimpleFeatures ==
    /\ Len(invocations) = 1
    /\ invocations[1].features = Features(<< "basic_info", "strings" >>)
    /\ strategy_result =
         IF invocations[1].raised THEN Return(None)
         ELSE Return([ kind |-> "dict", fallback_applied |-> TRUE,
                       reason |-> "analysis_error",
                       features_key |-> "simple_features",
                       features |-> << "basic_info", "strings" >>,
                       result |-> Invoke(operation, 1).value ])

\* C23 as stated: whatever the arguments were, the simpler-analysis fallback
\* sets the features to (basic_info, strings), invokes the operation exactly
\* once and returns a success wrapped with fallback_applied = True and
\* reason = "analysis_error".
C23_AlwaysInvokesWithSimpleFeatures ==
    C23_SimplerDone => C23_InvokedOnceWithSimpleFeatures

\* C23 (amended): when the arguments hold a features keyword, whatever its
\* value, the simpler-analysis fallback replaces it by (basic_info, strings),
\* invokes the operation exactly once and returns a success wrapped with
\* fallback_applied = True and reason = "analysis_error"; without a features
\* keyword it returns None and does not invoke the operation.
C23_InvokesWithSimpleFeaturesWhenGiven ==
    /\ []( C23_SimplerDone =>
            IF kwargs.has THEN C23_InvokedOnceWithSimpleFeatures
            ELSE invocations = << >> /\ strategy_result = Return(None) )
    /\ [][ ( strategy = fallback_to_simpler_analysis /\ pc = "strategy_entry" ) =>
             IF kwargs.has
             THEN kwargs' = Features(<< "basic_info", "strings" >>)
                  /\ pc' = "fallback_await_operation"
             ELSE kwargs' = kwargs /\ pc' = "strategy_done" ]_vars

\* C23 witness: the fallback has invoked the operation with the fixed
\* features and returned its wrapped result.
C23_Witness ==
    /\ C23_SimplerDone
    /\ pc = "done"
    /\ C23_InvokedOnceWithSimpleFeatures
    /\ ~invocations[1].raised
    /\ outcome = strategy_result

\* C24: no recovery strategy raises: whatever the operation does on each
\* invocation, a strategy awaited by a caller ends by returning a replacement
\* result or None.
C24_NoStrategyRaises ==
    /\ ( pc = "strategy_done" /\ strategy \in RetryStrategies \cup FallbackStrategies )
         => strategy_result.kind = "return"
    /\ ( pc = "done" /\ entry \in RetryStrategies \cup FallbackStrategies )
         => outcome.kind = "return"

\* a call is in flight
C25_InFlight == pc \notin {"idle", "done"}

\* a retry strategy has ended with None after an invocation that raised
C25_RetriesEndedWithoutSuccess ==
    /\ strategy \in RetryStrategies
    /\ pc \in {"strategy_done", "ewr_recovery_result", "done"}
    /\ strategy_result = Return(None)
    /\ Len(invocations) > 0
    /\ invocations[Len(invocations)].raised

\* C25: every awaited operation and sleep completing, each call of
\* execute_with_recovery (and each retry strategy awaited directly) finishes
\* by a return or a raise; execute_with_recovery has then invoked the
\* operation at most 1 + max_retries times, a retry strategy at most
\* max_retries times, and a retry strategy that ends without a success after
\* retrying has used up max_retries.
C25_CallsFinishWithinRetries ==
    /\ C25_InFlight ~> ( pc = "done" /\ outcome.kind \in {"return", "raise"} )
    /\ []( entry = "execute_with_recovery" =>
             Len(invocations) <= 1 + DefaultMaxRetries )
    /\ []( entry \in RetryStrategies => Len(invocations) <= error.max_retries )
    /\ []( C25_RetriesEndedWithoutSuccess => error.retry_count = error.max_retries )

\* C25 witness: a call of execute_with_recovery whose operation raises a
\* retry-classified failure has finished by raising, within the bound.
C25_Witness ==
    /\ EwrDone
    /\ error.recovery_strategy = RETRY
    /\ error.max_retries = DefaultMaxRetries
    /\ operation.fails > DefaultMaxRetries
    /\ Len(invocations) <= 1 + error.max_retries
    /\ outcome = Raise(OriginalFailure)

\* C26: every check_region_health probe that completes records the latency
\* it measured in the region's latency_ms, whether it was answered 200,
\* answered another status or ended by an exception.
C26_LatencyRecordedOnEveryOutcome ==
    [][ \A t \in 1..Len(loop_tasks) :
          Settles(t) =>
              regions'[region_index(loop_tasks[t].region)].latency_ms
                  = loop_tasks'[t].latency ]_vars

\* the targets replicate_to_all has gone through, the one it awaits included
C27_Reached(task) ==
    SubSeq(targets(task), 1,
           IF task.pc = "await_post" THEN task.index
           ELSE IF task.pc = "done" THEN task.index - 1
           ELSE 0)

\* C27: replicate_to_all works through the configured replication targets in
\* their order, one at a time: the POSTs it has sent are those to the targets
\* it has reached that a POST can be sent to, in the configured order, every
\* POST but the last has been answered, so at most one is outstanding, and no
\* step sends more than one.
C27_ReplicateAllIsSequential ==
    /\ []( \A t \in 1..Len(loop_tasks) :
             loop_tasks[t].coro = "replicate_to_all" =>
                 LET posts == Posts(t) IN
                 /\ \A i \in 1..(Len(posts) - 1) : posts[i].answer # None
                 /\ Cardinality({ i \in 1..Len(posts) : posts[i].answer = None }) <= 1
                 /\ region_config.replication_enabled =>
                      [ i \in 1..Len(posts) |-> posts[i].region ]
                          = Eligible(C27_Reached(loop_tasks[t])) )
    /\ [][ \A t \in 1..Len(loop_tasks) :
             ( t \in 1..Len(loop_tasks') /\ loop_tasks[t].coro = "replicate_to_all"
               /\ loop_tasks'[t].coro = "replicate_to_all" /\ loop_tasks[t].pc # "done" )
                 => Len(Posts(t)') <= Len(Posts(t)) + 1 ]_vars

\* C27 witness: replicate_to_all awaits the answer to its third POST, the
\* POSTs to the first and the second target having been answered.
C27_Witness ==
    \E t \in 1..Len(loop_tasks) :
        /\ loop_tasks[t].coro = "replicate_to_all"
        /\ loop_tasks[t].pc = "await_post"
        /\ [ i \in 1..Len(Posts(t)) |-> Posts(t)[i].region ] = << "A", "B", "C" >>
        /\ Posts(t)[1].answer # None /\ Posts(t)[2].answer # None
        /\ Posts(t)[3].answer = None

\* the region ids of the map, in iteration order
C28_RegionIds == [ i \in 1..Len(regions) |-> regions[i].region ]

\* the step is one of replicate_to_region or replicate_to_all
C28_Replicates ==
    \E t \in 1..Len(loop_tasks) :
        /\ t \in 1..Len(loop_tasks')
        /\ loop_tasks[t].coro \in { "replicate_to_all", "replicate_to_region" }
        /\ loop_tasks'[t] # loop_tasks[t]

\* C28: with probes, replications and get_best_region calls interleaving in
\* any order, a step changes the RegionStatus of a region r only by settling
\* a check_region_health probe of r; a step of a replication and a call of
\* get_best_region change no RegionStatus, and the region ids of the map stay
\* what the constructor made them.
C28_ProbeChangesOnlyItsRegion ==
    [][ constructed =>
          /\ C28_RegionIds' = C28_RegionIds
          /\ \A i \in 1..Len(regions) :
                regions'[i] # regions[i] =>
                    \E t \in 1..Len(loop_tasks) :
                        Settles(t) /\ loop_tasks[t].region = regions[i].region
          /\ C28_Replicates => regions' = regions
          /\ ( returned'.kind = "returned" /\ returned'.call = "get_best_region" )
                => regions' = regions ]_vars

\* C28 witness: get_best_region has returned A, which a probe has marked
\* healthy, while a probe of B and no other has settled on an HTTP 503 and a
\* replication POST is outstanding; A's status is as the probe of A left it.
C28_Witness ==
    /\ returned.kind = "returned" /\ returned.call = "get_best_region"
    /\ returned.value = Str("A")
    /\ regions[1].healthy /\ regions[1].error = None
    /\ regions[2].error = Str(<< "HTTP ", 503 >>)
    /\ \E t, u \in 1..Len(loop_tasks) :
          /\ loop_tasks[t].coro = "check_region_health"
          /\ loop_tasks[t].region = "B" /\ loop_tasks[t].pc = "done"
          /\ loop_tasks[u].pc = "await_post"

\* C29: analyze_binary_chunk, given a chunk of bytes and a list with a first
\* feature, calls the engine exactly once, for that first feature, whether
\* the engine returns or raises (no retry); when the engine returns, the
\* results of the envelope hold exactly one key, the first feature, and no
\* other feature of the list is ever run.
C29_ChunkRunsFirstFeatureOnce ==
    ( d_task = "analyze_binary_chunk" /\ chunk_arguments_ok ) =>
        LET first == d_input.features.items[1] IN
        /\ Len(d_engine) <= 1
        /\ \A i \in 1..Len(d_engine) : d_engine[i].feature = first
        /\ ChunkDone =>
             /\ Len(d_engine) = 1
             /\ d_outcome.kind = "return"
             /\ d_outcome.value.success = ~ d_engine[1].raises
             /\ d_outcome.value.success =>
                  /\ Len(d_outcome.value.results) = 1
                  /\ dict_keys(d_outcome.value.results) = { first }
                  /\ d_outcome.value.features = d_input.features.items

\* C29 witness: a chunk analysed with three different features has returned
\* results for the first of them alone.
C29_Witness ==
    /\ ChunkDone
    /\ d_input.features = List(<< FeaturePool[2], FeaturePool[1], FeaturePool[3] >>)
    /\ d_outcome.kind = "return" /\ d_outcome.value.success
    /\ dict_keys(d_outcome.value.results) = { FeaturePool[2] }
    /\ Len(d_engine) = 1

\* get_best_region has just returned
C30_BestReturned == returned.kind = "returned" /\ returned.call = "get_best_region"

C31_FirstInvocationFails ==
    pc = "ewr_await_operation" /\ pc' = "ewr_attempt_recovery"

\* the timestamps of the history, which name its entries
C31_Entries == [ i \in 1..Len(error_history) |-> error_history[i].timestamp ]

\* C31 as stated: the history grows by exactly one entry in the step in which
\* the first invocation of an execute_with_recovery call fails, and by none
\* in any other step.
C31_HistoryGrowsByOnePerFailedCall ==
    [][ Len(error_history') =
          Len(error_history) + (IF C31_FirstInvocationFails THEN 1 ELSE 0) ]_vars

\* C31 (amended): the step in which the first invocation of an
\* execute_with_recovery call fails appends exactly one error, the classified
\* failure, so that it is in the history before _attempt_recovery starts; the
\* history grows by one unless it already holds max_history_size entries,
\* when its oldest entry is dropped; no other step, a failing retry or
\* fallback invocation included, adds or removes an entry.
C31_OneAppendPerFailedCall ==
    /\ [][ IF C31_FirstInvocationFails
           THEN /\ error_history' =
                     Append(IF Len(error_history) = 1000 THEN Tail(error_history)
                            ELSE error_history, error')
                /\ error' = create_error_from_exception(Exception(operation.type, 1), now)
           ELSE C31_Entries' = C31_Entries ]_vars
    /\ []( ( entry = "execute_with_recovery"
             /\ pc \in {"ewr_attempt_recovery", "strategy_entry", "ewr_recovery_result"} )
           => error_history[Len(error_history)] = error )

\* C31 witness: a retry strategy has ended after three failed re-invocations
\* on a manager whose full history holds the failures of the calls 3..1002.
C31_Witness ==
    /\ pc = "done" /\ entry = retry_with_backoff
    /\ Len(invocations) = DefaultMaxRetries
    /\ \A i \in 1..Len(invocations) : invocations[i].raised
    /\ Len(error_history) = 1000
    /\ error_history[1].timestamp = 3
    /\ error_history[1000].timestamp = MaxHistoryCalls

\* an execute_with_recovery call has finished whose retry strategy ended on a
\* re-invocation of the operation that returned
C32_RetrySucceeded ==
    /\ EwrDone
    /\ strategy \in RetryStrategies
    /\ Len(invocations) > 1
    /\ ~ invocations[Len(invocations)].raised

\* C32: a strategy's result counts as a recovery exactly when it is not None.
\* When a re-invocation made by a retry strategy returns, the strategy stops
\* retrying and returns that result; if the result is None,
\* execute_with_recovery takes it for a failed recovery and raises the
\* failure of the first invocation although the operation has succeeded; any
\* other result, an empty one too, is returned to the caller.
C32_NoneResultIsAFailedRecovery ==
    C32_RetrySucceeded =>
        LET result == Invoke(operation, Len(invocations)) IN
        /\ Len(invocations) = operation.fails + 1
        /\ strategy_result = result
        /\ recovery_result = result.value
        /\ outcome = IF operation.result = "None" THEN Raise(OriginalFailure)
                     ELSE result

\* C32 witness: the operation failed once, its re-invocation by the retry
\* strategy returned None, and the call has raised the first failure.
C32_Witness ==
    /\ C32_RetrySucceeded
    /\ operation.fails = 1 /\ operation.result = "None"
    /\ Len(invocations) = 2
    /\ strategy_result = Return(None)
    /\ outcome = Raise(Exception(TimeoutError, 1))

\* region i is in the Unknown state: not healthy and no error recorded
C33_Unknown(i) == ~ regions[i].healthy /\ regions[i].error = None

\* C33: a region whose healthy flag is true has error = None and a
\* last_check; every region is Unknown (healthy false, error None) when the
\* manager is constructed, a probe of a region that settles leaves it healthy
\* or with an error recorded, and a region that has left Unknown never
\* returns to it.
C33_HealthyHasNoErrorAndUnknownIsInitial ==
    /\ []( \A i \in 1..Len(regions) :
             regions[i].healthy =>
                 regions[i].error = None /\ regions[i].last_check # None )
    /\ [][ ( ~ constructed /\ constructed' ) =>
              \A i \in 1..Len(regions') : C33_Unknown(i)' ]_vars
    /\ [][ constructed =>
              /\ \A t \in 1..Len(loop_tasks) :
                    Settles(t) => ~ C33_Unknown(region_index(loop_tasks[t].region))'
              /\ \A i \in 1..Len(regions) : C33_Unknown(i)' => C33_Unknown(i) ]_vars

\* C33 witness: of three regions one is healthy after a probe answered 200,
\* one is unhealthy with the empty text of an exception recorded, and one is
\* still Unknown.
C33_Witness ==
    /\ Len(regions) = 3
    /\ regions[1].healthy /\ regions[1].error = None /\ regions[1].last_check = utcnow
    /\ ~ regions[2].healthy /\ regions[2].error = Str(<< "" >>)
    /\ C33_Unknown(3)
    /\ \E t \in 1..Len(loop_tasks) :
          /\ loop_tasks[t].coro = "check_region_health" /\ loop_tasks[t].region = "A"
          /\ loop_tasks[t].pc = "done" /\ loop_tasks[t].response = Status(200)

\* the step runs task t, a call of coro, from its start
C34_Enters(t, coro) ==
    /\ t \in 1..Len(loop_tasks) /\ t \in 1..Len(loop_tasks')
    /\ loop_tasks[t].coro = coro
    /\ loop_tasks[t].pc = "ready" /\ loop_tasks'[t].pc # "ready"

\* the step ends task t with False, sends no request and writes no status
C34_ReturnsFalseUntouched(t) ==
    /\ loop_tasks'[t].pc = "done"
    /\ loop_tasks'[t].outcome = Return(Bool(FALSE))
    /\ http' = http
    /\ regions' = regions

\* C34: check_region_health called when the manager has no session (before
\* initialize, or after close has cleared it) or for a region that is not in
\* the map returns False, sends no GET and changes no RegionStatus, and close
\* changes none either, so that a region that was healthy stays healthy and
\* is what get_best_region can return; replicate_to_region returns False
\* without a POST when replication is disabled, the region is not in the map
\* or there is no session.
C34_NoSessionNoRequest ==
    /\ [][ \A t \in 1..Len(loop_tasks) :
             /\ ( /\ C34_Enters(t, "check_region_health")
                  /\ session = "None" \/ loop_tasks[t].region \notin region_keys )
                  => C34_ReturnsFalseUntouched(t)
             /\ ( /\ C34_Enters(t, "replicate_to_region")
                  /\ \/ ~ region_config.replication_enabled
                     \/ loop_tasks[t].region \notin region_keys
                     \/ session = "None" )
                  => C34_ReturnsFalseUntouched(t)
             /\ ( /\ t \in 1..Len(loop_tasks')
                  /\ loop_tasks[t].coro = "close"
                  /\ loop_tasks'[t] # loop_tasks[t] )
                  => regions' = regions ]_vars
    /\ []( ( /\ returned.kind = "returned" /\ returned.call = "get_best_region"
             /\ session = "None"
             /\ \E i \in 1..Len(regions) : regions[i].healthy )
           => \E i \in 1..Len(regions) :
                 regions[i].healthy /\ returned.value = Str(regions[i].region) )

\* C34 witness: after close, a probe of region A, which an earlier probe had
\* marked healthy, has returned False without a request; A is still healthy
\* and get_best_region has returned it.
C34_Witness ==
    /\ session = "None"
    /\ Len(regions) = 2
    /\ regions[1].healthy /\ regions[1].last_check = utcnow
    /\ returned.kind = "returned" /\ returned.call = "get_best_region"
    /\ returned.value = Str("A")
    /\ http = << >>
    /\ \E t \in 1..Len(loop_tasks) :
          /\ loop_tasks[t].coro = "check_region_health" /\ loop_tasks[t].region = "A"
          /\ loop_tasks[t].pc = "done"
          /\ loop_tasks[t].response = None
          /\ loop_tasks[t].outcome = Return(Bool(FALSE))

\* the RegionStatus a probe leaves when it settles on response, having
\* measured latency: healthy and error always, latency_ms and last_check as
\* the branch taken writes them (lines 95-110)
C35_Written(status, response, latency) ==
    /\ status.healthy = (response = Status(200))
    /\ status.error = IF response = Status(200) THEN None ELSE ErrorText(response)
    /\ response = Status(200) => status.latency_ms = latency /\ status.last_check = utcnow
    /\ response.kind = "exception" => status.latency_ms = latency

\* C35: when probes of one region overlap, the probe that settles writes the
\* region's healthy flag and error whatever probes of the region were started
\* after it and have settled before it, so the status after both is that of
\* the probe that settled last; and a RegionStatus changes only in the single
\* step of a settling probe that makes all of that probe's writes, so
\* get_best_region never reads a status that is written in part.
C35_LastSettledProbeWins ==
    [][ constructed =>
          /\ \A t \in 1..Len(loop_tasks) :
                Settles(t) =>
                    C35_Written(regions'[region_index(loop_tasks[t].region)],
                                loop_tasks'[t].response, loop_tasks'[t].latency)
          /\ \A i \in 1..Len(regions) :
                regions'[i] # regions[i] =>
                    \E t \in 1..Len(loop_tasks) :
                        /\ Settles(t) /\ loop_tasks[t].region = regions[i].region
                        /\ C35_Written(regions'[i], loop_tasks'[t].response,
                                       loop_tasks'[t].latency)
          /\ ( returned'.kind = "returned" /\ returned'.call = "get_best_region" )
                => /\ regions' = regions
                   /\ returned'.value = get_best_region ]_vars

\* C35 witness: of two overlapping probes of region A the one started first
\* was answered 503 and the one started second 200; A is unhealthy with the
\* error of the first, which therefore settled last.
C35_Witness ==
    /\ Len(loop_tasks) = 2
    /\ \A t \in 1..2 :
          /\ loop_tasks[t].coro = "check_region_health"
          /\ loop_tasks[t].region = "A" /\ loop_tasks[t].pc = "done"
    /\ loop_tasks[1].response = Status(503)
    /\ loop_tasks[2].response = Status(200)
    /\ ~ regions[1].healthy
    /\ regions[1].error = Str(<< "HTTP ", 503 >>)
    /\ regions[1].last_check = utcnow

=============================================================================
